---- MODULE Spec2Model ----
(***************************************************************************)
(* go-figgy: loading AWS Parameter Store values into tagged struct fields. *)
(*                                                                         *)
(* Texts (parameter values) are sequences of one-character strings.        *)
(* Annotations and keys are sequences of symbols: a symbol is a space, a   *)
(* comma, a dash, a template action, or a word (a maximal run of other     *)
(* characters such as "decrypt" or "int8").                                *)
(***************************************************************************)
EXTENDS Integers, Sequences, FiniteSets, TLC

VARIABLES
    store,      \* the parameter store: its data and when its client fails
    typ,        \* the struct type of the caller's record
    recInit,    \* the record as the caller first built it
    arg,        \* what the caller passes as v
    tparams,    \* the templating parameters the caller holds
    rec,        \* the record now
    pc,         \* "idle", "loading", "done" (returned) or "crashed" (panic)
    entry,      \* the entry point of the running or last call
    data,       \* the data argument of the running or last call
    plain,      \* the partition fetched without decryption
    decrypt,    \* the partition fetched with decryption
    phase,      \* the partition batchIterateFields is in
    bi,         \* its loop index i in that partition
    fetches,    \* the GetParameters requests of the call, in order
    assigned,   \* the descriptors the call has converted, in order
    err,        \* the error the call returned
    watcher,    \* the Watcher the call returned
    calls,      \* number of calls begun
    recBefore,  \* the record when the call began
    recWalked,  \* the record when walk of the call ended
    results,    \* per entry point, the summary of its last finished call
    tagIn,      \* tag parser check: the annotation and the parameters
    tagOut,     \* tag parser check: the result of tag
    conv,       \* conversion check: type, json option and text of the one field
    partIn,     \* partition check: the list given to partitionFields
    partOut,    \* partition check: the two lists it returned
    iter,       \* batching check: a run of batchIterateFields
    watch,      \* the goroutine of Watch: its position and what it has done
    wk          \* walk check: a call of walk, field by field

vars == <<store, typ, recInit, arg, tparams, rec, pc, entry, data, plain,
          decrypt, phase, bi, fetches, assigned, err, watcher, calls,
          recBefore, recWalked, results, tagIn, tagOut, conv, partIn, partOut,
          iter, watch, wk>>

\* the variables of the checks of single functions
checkVars == <<tagIn, tagOut, partIn, partOut, iter, wk>>

loadVars == <<store, typ, recInit, arg, tparams, rec, pc, entry, data, plain,
              decrypt, phase, bi, fetches, assigned, err, watcher, calls,
              recBefore, recWalked, results>>

\* maximum number of names in one GetParameters request
maxParameters == 10

\* ------------------------------------------------------------------------
\* Bounds of the model
\* ------------------------------------------------------------------------
\* ticks of a goroutine of Watch
MaxTicks == 3
\* nested calls of walk the stack of the goroutine has room for
MaxDepth == 4
\* length of the lists given to partitionFields
MaxPartLen == 6
\* length of the lists given to batchIterateFields, its batch sizes, and the
\* call of the callback that returns an error, up to these
MaxIterLen == 12
MaxBatchSize == 5
MaxIterFail == 3
\* calls of Load / LoadWithParameters in one behaviour
MaxCalls == 2
\* length of the annotations enumerated for the tag parser
MaxTagLen == 4
\* the store fails at its n-th request of a call, n up to this
MaxFailAt == 2

\* ------------------------------------------------------------------------
\* Sequence helpers
\* ------------------------------------------------------------------------
Min(a, b) == IF a < b THEN a ELSE b

\* the Go slice s[i:j], 0-based, half open
Slice(s, i, j) == SubSeq(s, i + 1, j)

RECURSIVE Concat(_)
Concat(ss) == IF ss = <<>> THEN <<>> ELSE Head(ss) \o Concat(Tail(ss))

\* Op applied to the value of x, x evaluated once
ByValue(x, Op(_)) == CHOOSE out \in {Op(v) : v \in {x}} : TRUE

\* ------------------------------------------------------------------------
\* Errors
\* ------------------------------------------------------------------------
NoError == [type |-> "nil"]

InvalidTypeError(t) == [type |-> "InvalidTypeError", Type |-> t]

\* reflect.TypeOf(v): its kind and its name; reflect.TypeOf(nil) is nil
NilType == [kind |-> "nil", name |-> "nil"]

\* InvalidTypeError.Error()
\* Error() without the case of the nil type
InvalidTypeErrorMessageWithoutNil(e) ==
    IF e.Type.kind # "ptr" THEN <<"non-pointer Load(", e.Type.name, ")">>
    ELSE <<"invalid type ", e.Type.name>>

InvalidTypeErrorMessage(e) ==
    IF e.Type = NilType THEN <<"nil type">>
    ELSE IF e.Type.kind # "ptr" THEN <<"non-pointer Load(", e.Type.name, ")">>
    ELSE <<"invalid type ", e.Type.name>>

TagParseError(t, f) == [type |-> "TagParseError", Tag |-> t, Field |-> f]

ConvertTypeError(f, t, v) ==
    [type |-> "ConvertTypeError", Field |-> f, Type |-> t, Value |-> v]

\* fmt.Errorf / errors.New / an error of the store client
PlainError(what, detail) == [type |-> "error", what |-> what, detail |-> detail]

\* ------------------------------------------------------------------------
\* strings.TrimSpace and strings.Split on symbol sequences
\* ------------------------------------------------------------------------
RECURSIVE TrimLeft(_)
TrimLeft(s) ==
    IF s # <<>> /\ Head(s) = " " THEN TrimLeft(Tail(s)) ELSE s

\* the first n elements of s without the trailing elements equal to c
RECURSIVE TrimRightTo(_, _, _)
TrimRightTo(s, n, c) ==
    IF n > 0 /\ s[n] = c THEN TrimRightTo(s, n - 1, c) ELSE SubSeq(s, 1, n)

TrimRight(s) == TrimRightTo(s, Len(s), " ")

TrimSpace(s) == TrimRight(TrimLeft(s))

\* strings.Split(s, ","): always at least one segment
RECURSIVE SplitAcc(_, _, _)
SplitAcc(s, cur, acc) ==
    IF s = <<>> THEN Append(acc, cur)
    ELSE IF Head(s) = "," THEN SplitAcc(Tail(s), <<>>, Append(acc, cur))
    ELSE SplitAcc(Tail(s), Append(cur, Head(s)), acc)

Split(s) == SplitAcc(s, <<>>, <<>>)

\* ------------------------------------------------------------------------
\* Templating parameters (the data argument of LoadWithParameters)
\* ------------------------------------------------------------------------
\* kind: "nil" (no parameters), "map" (figgy.P), "struct" (a struct value),
\* "ptr" (a pointer to a struct). env: the value under the name env of a
\* map, or of the exported field Env of a struct; "none" when absent.
NilData == [kind |-> "nil", env |-> "none"]
MapData(e) == [kind |-> "map", env |-> e]
StructData(e) == [kind |-> "struct", env |-> e]
PtrData(e) == [kind |-> "ptr", env |-> e]

TemplateAction == "{{.env}}"
FieldAction == "{{.Env}}"
NoValue == "<no value>"

\* text/template: Execute of the action {{.env}} against data. A nil data or
\* a map without the name prints "<no value>"; a struct (or pointer to one)
\* has no field env, which is an execution error. The action {{.Env}} prints
\* the field Env of a struct (or pointer to one), and "<no value>" for a nil
\* data and for a map, which has no name Env.
ExecFails(key, d) ==
    /\ \E i \in 1..Len(key) : key[i] = TemplateAction
    /\ d.kind \in {"struct", "ptr"}

Render(key, d) ==
    [i \in 1..Len(key) |->
        IF key[i] = FieldAction
        THEN (IF d.kind \in {"struct", "ptr"} THEN d.env ELSE NoValue)
        ELSE IF key[i] # TemplateAction THEN key[i]
        ELSE IF d.kind = "map" /\ d.env # "none" THEN d.env
        ELSE NoValue]

\* ------------------------------------------------------------------------
\* tag: parse the ssm annotation of a struct field
\* ------------------------------------------------------------------------
NoField == [none |-> TRUE]

newField(key, dec) == [key |-> TrimSpace(key), decrypt |-> dec, json |-> FALSE]

\* the options compared as written, without TrimSpace
HasOptionUntrimmed(o, name) ==
    \E i \in 2..Len(o) : o[i] = <<name>>

HasOption(o, name) ==
    \E i \in 2..Len(o) : TrimSpace(o[i]) = <<name>>

\* tag without the check of the empty key
tagAnyKey(f, d) ==
    LET t == f.tag
        o == Split(t)
        fld == newField(TrimSpace(o[1]), FALSE)
    IN IF t = <<>> \/ t = <<"-">> THEN [err |-> NoError, fld |-> NoField]
       ELSE [err |-> NoError,
             fld |-> [key |-> IF ExecFails(fld.key, d) THEN fld.key
                              ELSE Render(fld.key, d),
                      decrypt |-> HasOption(o, "decrypt"),
                      json |-> HasOption(o, "json")]]

tag(f, d) ==
    LET t == f.tag
        o == Split(t)
        fld == newField(TrimSpace(o[1]), FALSE)
    IN IF t = <<>> \/ t = <<"-">> THEN [err |-> NoError, fld |-> NoField]
       ELSE IF fld.key = <<>>
            THEN [err |-> TagParseError(t, f.name), fld |-> NoField]
       ELSE [err |-> NoError,
             fld |-> [key |-> IF ExecFails(fld.key, d) THEN fld.key
                              ELSE Render(fld.key, d),
                      decrypt |-> HasOption(o, "decrypt"),
                      json |-> HasOption(o, "json")]]

\* ------------------------------------------------------------------------
\* Types and values
\* ------------------------------------------------------------------------
\* A type is [k |-> kind] with kind one of string, bool, int, int8, uint,
\* uint8, float64, duration (time.Duration), str (a named string type with
\* an UnmarshalParameter method), map (a kind set does not handle); or
\* [k |-> "ptr", elem |-> type], [k |-> "slice", elem |-> type],
\* [k |-> "struct", id |-> name of the struct type].
TString == [k |-> "string"]
TBool == [k |-> "bool"]
TInt == [k |-> "int"]
TInt8 == [k |-> "int8"]
TInt16 == [k |-> "int16"]
TInt32 == [k |-> "int32"]
TInt64 == [k |-> "int64"]
TUint == [k |-> "uint"]
TUint8 == [k |-> "uint8"]
TUint16 == [k |-> "uint16"]
TUint32 == [k |-> "uint32"]
TUint64 == [k |-> "uint64"]
TFloat64 == [k |-> "float64"]
TDuration == [k |-> "duration"]
TStr == [k |-> "str"]
TMap == [k |-> "map"]
TPtr(t) == [k |-> "ptr", elem |-> t]
TSlice(t) == [k |-> "slice", elem |-> t]
TStruct(id) == [k |-> "struct", id |-> id]

SignedKinds == {"int", "int8", "int16", "int32", "int64"}
UnsignedKinds == {"uint", "uint8", "uint16", "uint32", "uint64"}

\* reflect.Type.String()
RECURSIVE TypeName(_)
TypeName(t) ==
    CASE t.k = "ptr" -> <<"*">> \o TypeName(t.elem)
      [] t.k = "slice" -> <<"[]">> \o TypeName(t.elem)
      [] t.k = "struct" -> <<t.id>>
      [] t.k = "duration" -> <<"time.Duration">>
      [] t.k = "str" -> <<"figgy.str">>
      [] OTHER -> <<t.k>>

\* a nil pointer, and a pointer to a target allocated during call number gen
\* (gen 0: allocated by the caller before any Load)
NilPtr == [nil |-> TRUE]
PtrTo(gen, v) == [nil |-> FALSE, gen |-> gen, elem |-> v]

ZeroFloat == [m |-> 0, e |-> 0]

\* ------------------------------------------------------------------------
\* strconv and time.ParseDuration on texts
\* ------------------------------------------------------------------------
Digits == {"0", "1", "2", "3", "4", "5", "6", "7", "8", "9"}

DigitVal(c) ==
    CASE c = "0" -> 0 [] c = "1" -> 1 [] c = "2" -> 2 [] c = "3" -> 3
      [] c = "4" -> 4 [] c = "5" -> 5 [] c = "6" -> 6 [] c = "7" -> 7
      [] c = "8" -> 8 [] c = "9" -> 9

IsDigits(s) == s # <<>> /\ \A i \in 1..Len(s) : s[i] \in Digits

\* the number the first n digits of s spell
RECURSIVE NatValTo(_, _)
NatValTo(s, n) ==
    IF n = 0 THEN 0 ELSE NatValTo(s, n - 1) * 10 + DigitVal(s[n])

NatVal(s) == NatValTo(s, Len(s))

\* An integer value is kept as its decimal numeral: the digits without
\* leading zeros, "0" for zero, behind a "-" when negative; so the 64-bit
\* numbers are exact.
ZeroNum == <<"0">>

\* the digits of s from the first that is not "0" on
RECURSIVE StripLeadingFrom(_, _)
StripLeadingFrom(s, k) ==
    IF k > Len(s) THEN ZeroNum
    ELSE IF s[k] = "0" THEN StripLeadingFrom(s, k + 1)
    ELSE SubSeq(s, k, Len(s))

Magnitude(s) == StripLeadingFrom(s, 1)

Negate(m) == IF m = ZeroNum THEN m
             ELSE IF Head(m) = "-" THEN Tail(m)
             ELSE <<"-">> \o m

\* a < b and a <= b of two magnitudes
MagLess(a, b) ==
    \/ Len(a) < Len(b)
    \/ /\ Len(a) = Len(b)
       /\ \E i \in 1..Len(a) :
             /\ \A j \in 1..(i - 1) : a[j] = b[j]
             /\ DigitVal(a[i]) < DigitVal(b[i])

MagLeq(a, b) == a = b \/ MagLess(a, b)

\* the numeral of a natural number
RECURSIVE NumeralOf(_)
NumeralOf(n) ==
    IF n < 10 THEN <<CHOOSE c \in Digits : DigitVal(c) = n>>
    ELSE Append(NumeralOf(n \div 10), CHOOSE c \in Digits : DigitVal(c) = n % 10)

\* 1<<bits - 1 for the unsigned kinds and 1<<(bits-1) for the signed ones,
\* as numerals
MaxUint(bits) ==
    CASE bits = 8 -> <<"2", "5", "5">>
      [] bits = 16 -> <<"6", "5", "5", "3", "5">>
      [] bits = 32 -> <<"4", "2", "9", "4", "9", "6", "7", "2", "9", "5">>
      [] bits = 64 -> <<"1", "8", "4", "4", "6", "7", "4", "4", "0", "7",
                        "3", "7", "0", "9", "5", "5", "1", "6", "1", "5">>

Cutoff(bits) ==
    CASE bits = 8 -> <<"1", "2", "8">>
      [] bits = 16 -> <<"3", "2", "7", "6", "8">>
      [] bits = 32 -> <<"2", "1", "4", "7", "4", "8", "3", "6", "4", "8">>
      [] bits = 64 -> <<"9", "2", "2", "3", "3", "7", "2", "0", "3", "6",
                        "8", "5", "4", "7", "7", "5", "8", "0", "8">>

\* reflect.Type.Bits() of the integer kinds (int and uint on a 64-bit platform)
Bits(t) ==
    CASE t.k \in {"int8", "uint8"} -> 8
      [] t.k \in {"int16", "uint16"} -> 16
      [] t.k \in {"int32", "uint32"} -> 32
      [] OTHER -> 64

Failed == [ok |-> FALSE, n |-> ZeroNum]

\* strconv.ParseUint(s, 10, 64): digits only, no sign; a range error beyond
\* 1<<64 - 1
ParseUint(s) ==
    IF IsDigits(s) /\ MagLeq(Magnitude(s), MaxUint(64))
    THEN [ok |-> TRUE, n |-> Magnitude(s)]
    ELSE Failed

\* strconv.ParseInt(s, 10, 64): an optional sign, then digits; a range error
\* for 1<<63 and beyond, and below -1<<63
ParseInt(s) ==
    LET neg == s # <<>> /\ Head(s) = "-"
        digits == IF s # <<>> /\ Head(s) \in {"+", "-"} THEN Tail(s) ELSE s
    IN IF ~IsDigits(digits) THEN Failed
       ELSE IF neg /\ MagLeq(Magnitude(digits), Cutoff(64))
            THEN [ok |-> TRUE, n |-> Negate(Magnitude(digits))]
       ELSE IF ~neg /\ MagLess(Magnitude(digits), Cutoff(64))
            THEN [ok |-> TRUE, n |-> Magnitude(digits)]
       ELSE Failed

\* strconv.ParseBool
ParseBool(s) ==
    IF s \in {<<"1">>, <<"t">>, <<"T">>, <<"T", "R", "U", "E">>,
              <<"t", "r", "u", "e">>, <<"T", "r", "u", "e">>}
    THEN [ok |-> TRUE, b |-> TRUE]
    ELSE IF s \in {<<"0">>, <<"f">>, <<"F">>, <<"F", "A", "L", "S", "E">>,
                   <<"f", "a", "l", "s", "e">>, <<"F", "a", "l", "s", "e">>}
    THEN [ok |-> TRUE, b |-> FALSE]
    ELSE [ok |-> FALSE, b |-> FALSE]

\* strconv.ParseFloat on decimal texts [sign] digits [. digits]; the value is
\* m / 10^e with no trailing zero in the fraction
StripZeros(s) == TrimRightTo(s, Len(s), "0")

DotAt(s) == IF \E i \in 1..Len(s) : s[i] = "."
            THEN CHOOSE i \in 1..Len(s) : s[i] = "." /\ \A j \in 1..(i - 1) : s[j] # "."
            ELSE 0

ParseUFloat(s) ==
    LET d == DotAt(s)
        ip == IF d = 0 THEN s ELSE SubSeq(s, 1, d - 1)
        fp == IF d = 0 THEN <<>> ELSE StripZeros(SubSeq(s, d + 1, Len(s)))
        raw == IF d = 0 THEN <<>> ELSE SubSeq(s, d + 1, Len(s))
    IN IF /\ ip \o raw # <<>>
          /\ \A i \in 1..Len(ip) : ip[i] \in Digits
          /\ \A i \in 1..Len(raw) : raw[i] \in Digits
       THEN [ok |-> TRUE, f |-> [m |-> NatVal(ip \o fp), e |-> Len(fp)]]
       ELSE [ok |-> FALSE, f |-> ZeroFloat]

ParseFloat(s) ==
    IF s # <<>> /\ Head(s) \in {"+", "-"}
    THEN LET r == ParseUFloat(Tail(s))
         IN IF r.ok /\ Head(s) = "-"
            THEN [ok |-> TRUE, f |-> [m |-> 0 - r.f.m, e |-> r.f.e]]
            ELSE r
    ELSE ParseUFloat(s)

\* time.ParseDuration on texts of one component, [sign] digits unit, and "0";
\* the value is in nanoseconds
UnitNanos(u) ==
    CASE u = <<"n", "s">> -> 1
      [] u = <<"u", "s">> -> 1000
      [] u = <<"m", "s">> -> 1000000
      [] u = <<"s">> -> 1000000000
      [] OTHER -> 0

RECURSIVE LeadingDigits(_)
LeadingDigits(s) ==
    IF s # <<>> /\ Head(s) \in Digits THEN 1 + LeadingDigits(Tail(s)) ELSE 0

ParseUDuration(s) ==
    LET k == LeadingDigits(s)
        u == SubSeq(s, k + 1, Len(s))
    IN IF s = <<"0">> THEN [ok |-> TRUE, n |-> ZeroNum]
       ELSE IF k > 0 /\ UnitNanos(u) > 0
            THEN [ok |-> TRUE, n |-> NumeralOf(NatVal(SubSeq(s, 1, k)) * UnitNanos(u))]
       ELSE Failed

ParseDuration(s) ==
    IF s # <<>> /\ Head(s) \in {"+", "-"}
    THEN LET r == ParseUDuration(Tail(s))
         IN IF r.ok /\ Head(s) = "-" THEN [ok |-> TRUE, n |-> Negate(r.n)] ELSE r
    ELSE ParseUDuration(s)

\* reflect.Value.OverflowInt / OverflowUint: the number does not fit the
\* bits of the kind
\* the check against the 64 bits of the parsed number only
OverflowIntOfInt64(t, n) == FALSE

OverflowInt(t, n) ==
    IF Head(n) = "-" THEN ~MagLeq(Tail(n), Cutoff(Bits(t)))
    ELSE ~MagLess(n, Cutoff(Bits(t)))

OverflowUint(t, n) == ~MagLeq(n, MaxUint(Bits(t)))

\* ------------------------------------------------------------------------
\* Struct types of the model
\* ------------------------------------------------------------------------
\* a struct field: name, PkgPath ("" when exported), ssm annotation, type
F(name, tg, t) == [name |-> name, pkgPath |-> "", tag |-> tg, type |-> t]
Unexported(name, tg, t) == [name |-> name, pkgPath |-> "figgy", tag |-> tg, type |-> t]

\* number of fields of the generated struct type Big; every fifth field
\* (from the first) is fetched with decryption
BigFields == 15

BigField(i) ==
    LET dec == IF i % 5 = 1 THEN <<",", "decrypt">> ELSE <<>>
        nm == "F" \o ToString(i)
    IN CASE i = BigFields - 1 -> F(nm, <<"uint8">> \o dec, TUint8)
         [] i = 11 -> F(nm, <<"duration">> \o dec, TDuration)
         [] i % 4 = 0 -> F(nm, <<"string">> \o dec, TString)
         [] i % 4 = 1 -> F(nm, <<"bool">> \o dec, TBool)
         [] i % 4 = 2 -> F(nm, <<"int">> \o dec, TInt)
         [] i % 4 = 3 -> F(nm, <<"int8">> \o dec, TInt8)

\* no field under conversion
NoConv == [type |-> TString, json |-> FALSE, text |-> <<>>]

StructFields(id) ==
    CASE id = "Conv" ->
            << F("Field", IF conv.json THEN <<"k", ",", "json">> ELSE <<"k">>, conv.type) >>
      [] id = "Mixed" ->
            << F("Plain1", <<"string">>, TString),
               F("Plain2", <<"bool">>, TBool),
               F("Decrypt1", <<"int", ",", "decrypt">>, TInt),
               F("Decrypt2", <<"int8", ",", "decrypt">>, TInt8) >>
      [] id = "Interleaved" ->
            << F("A", <<"int8", ",", "decrypt">>, TInt8),
               F("B", <<"string">>, TString),
               F("C", <<"bool", ",", " ", "decrypt">>, TBool),
               F("D", <<"durationstring", ",", "x", ",", "decrypt">>, TDuration),
               F("E", <<" ", "float64", " ">>, TFloat64),
               F("G", <<"uint8">>, TUint8) >>
      [] id = "Big" -> [i \in 1..BigFields |-> BigField(i)]
      [] id = "Nested" ->
            << F("String", <<"string">>, TString),
               F("PString", <<"pstring">>, TPtr(TString)) >>
      [] id = "Top" ->
            << F("String", <<"string">>, TString),
               F("PString", <<"pstring">>, TPtr(TString)),
               F("Nested", <<>>, TStruct("Nested")),
               F("PNested", <<>>, TPtr(TStruct("Nested"))) >>
      [] id = "BadTag" ->
            << F("X", <<"string">>, TString),
               F("P", <<"int8">>, TPtr(TInt8)),
               F("Bad", <<" ", ",", "decrypt">>, TBool),
               F("After", <<"bool">>, TBool) >>
      [] id = "BadInner" ->
            << F("Q", <<",">>, TString) >>
      [] id = "BadNested" ->
            << F("A", <<"string">>, TString),
               F("In", <<>>, TStruct("BadInner")),
               F("Z", <<"int">>, TInt) >>
      [] id = "Config" ->
            << F("Server", <<"/myapp/", "{{.env}}", "/server">>, TString),
               F("Port", <<"/myapp/", "{{.env}}", "/port">>, TInt),
               F("Password", <<"/myapp/", "{{.env}}", "/password", ",", "decrypt">>,
                 TString) >>
      [] id = "Watched" ->
            << F("Server", <<"/myapp/", "{{.Env}}", "/server">>, TString),
               F("Name", <<"string">>, TString) >>
      [] id = "Ignored" ->
            << F("Name", <<"string">>, TString),
               F("Skipped", <<"-">>, TStruct("Nested")),
               F("Last", <<"bool">>, TBool) >>
      [] id = "Node" ->
            << F("Val", <<"int">>, TInt),
               F("Next", <<>>, TPtr(TStruct("Node"))) >>
      [] id = "Hidden" ->
            << Unexported("secret", <<"string">>, TString),
               F("Skip", <<"-">>, TInt),
               F("None", <<>>, TBool),
               F("Val", <<"uint">>, TUint),
               F("AliasString", <<"string">>, TStr),
               F("Slice", <<"sliceint">>, TSlice(TInt)),
               F("Dur", <<"duration", ",", "decrypt">>, TDuration) >>

\* the zero value of a type
RECURSIVE Zero(_)
Zero(t) ==
    CASE t.k \in {"string", "str"} -> <<>>
      [] t.k = "bool" -> FALSE
      [] t.k \in SignedKinds \cup UnsignedKinds \cup {"duration"} -> ZeroNum
      [] t.k = "float64" -> ZeroFloat
      [] t.k = "ptr" -> NilPtr
      [] t.k = "slice" -> <<>>
      [] t.k = "map" -> <<>>
      [] t.k = "struct" ->
            [i \in 1..Len(StructFields(t.id)) |-> Zero(StructFields(t.id)[i].type)]

\* the type a field's value has once walk has stepped through a pointer
Indirect(t) == IF t.k = "ptr" THEN t.elem ELSE t

\* the value at a field location: path is the list of field indexes from the
\* root struct, a pointer field standing for its target
RECURSIVE GetAt(_, _, _)
GetAt(id, v, path) ==
    LET i == Head(path)
        ft == StructFields(id)[i].type
        fv == IF ft.k = "ptr" THEN v[i].elem ELSE v[i]
    IN IF Len(path) = 1 THEN fv ELSE GetAt(Indirect(ft).id, fv, Tail(path))

RECURSIVE SetAt(_, _, _, _)
SetAt(id, v, path, x) ==
    LET i == Head(path)
        ft == StructFields(id)[i].type
        fv == IF ft.k = "ptr" THEN v[i].elem ELSE v[i]
        nv == IF Len(path) = 1 THEN x ELSE SetAt(Indirect(ft).id, fv, Tail(path), x)
    IN [v EXCEPT ![i] = IF ft.k = "ptr" THEN [v[i] EXCEPT !.elem = nv] ELSE nv]

\* ------------------------------------------------------------------------
\* walk: initialize pointers, collect the descriptors of the tagged fields
\* ------------------------------------------------------------------------
\* the loop of walk from field i on; p is the list built so far. The result
\* carries the struct value as walk leaves it, also on an error.
RECURSIVE walkFrom(_, _, _, _, _, _, _)
walkFrom(id, v, d, gen, path, i, p) ==
    IF i > Len(StructFields(id)) THEN [err |-> NoError, p |-> p, v |-> v]
    ELSE IF StructFields(id)[i].pkgPath # "" THEN walkFrom(id, v, d, gen, path, i + 1, p)
    ELSE ByValue(
        <<StructFields(id)[i],
          IF StructFields(id)[i].type.k = "ptr"
          THEN [v EXCEPT ![i] = PtrTo(gen, Zero(StructFields(id)[i].type.elem))]
          ELSE v,
          tag(StructFields(id)[i], d)>>,
        LAMBDA c :
            LET ft == c[1]
                v1 == c[2]
                pf == c[3]
                et == Indirect(ft.type)
                fv == IF ft.type.k = "ptr" THEN v1[i].elem ELSE v1[i]
            IN IF pf.err # NoError THEN [err |-> pf.err, p |-> <<>>, v |-> v1]
               ELSE IF pf.fld # NoField
                    THEN walkFrom(id, v1, d, gen, path, i + 1,
                                  Append(p, [key |-> pf.fld.key,
                                             decrypt |-> pf.fld.decrypt,
                                             json |-> pf.fld.json,
                                             path |-> Append(path, i),
                                             name |-> ft.name,
                                             type |-> et]))
               ELSE IF et.k = "struct"
                    THEN ByValue(
                        walkFrom(et.id, fv, d, gen, Append(path, i), 1, <<>>),
                        LAMBDA sub :
                            LET v2 == [v1 EXCEPT ![i] = IF ft.type.k = "ptr"
                                                        THEN PtrTo(gen, sub.v)
                                                        ELSE sub.v]
                            IN IF sub.err # NoError
                               THEN [err |-> sub.err, p |-> <<>>, v |-> v2]
                               ELSE walkFrom(id, v2, d, gen, path, i + 1, p \o sub.p))
               ELSE walkFrom(id, v1, d, gen, path, i + 1, p))

\* walk(rv.Elem(), data): NumField panics on a value that is not a struct
walk(t, v, d, gen) ==
    IF t.k # "struct" THEN [panic |-> TRUE, err |-> NoError, p |-> <<>>, v |-> v]
    ELSE [panic |-> FALSE] @@ walkFrom(t.id, v, d, gen, <<>>, 1, <<>>)

\* ------------------------------------------------------------------------
\* set: convert a text and assign it to a field location
\* ------------------------------------------------------------------------
\* json.Unmarshal of a text into a value of type t, for the scalar kinds: a
\* JSON number has no "+" sign, a JSON boolean is true or false
jsonUnmarshal(t, s) ==
    CASE t.k \in SignedKinds /\ s # <<>> /\ Head(s) # "+" /\ ParseInt(s).ok
              /\ ~OverflowInt(t, ParseInt(s).n) -> [ok |-> TRUE, val |-> ParseInt(s).n]
      [] t.k \in UnsignedKinds /\ ParseUint(s).ok /\ ~OverflowUint(t, ParseUint(s).n) ->
              [ok |-> TRUE, val |-> ParseUint(s).n]
      [] t.k = "bool" /\ s = <<"t", "r", "u", "e">> -> [ok |-> TRUE, val |-> TRUE]
      [] t.k = "bool" /\ s = <<"f", "a", "l", "s", "e">> -> [ok |-> TRUE, val |-> FALSE]
      [] OTHER -> [ok |-> FALSE, val |-> Zero(t)]

setJSON(f, s, cur) ==
    LET r == jsonUnmarshal(f.type, s)
    IN IF r.ok THEN [err |-> NoError, val |-> r.val]
       ELSE [err |-> PlainError("json unmarshal error for field", f.name), val |-> cur]

\* unmarshaler that never finds the method
unmarshalerBlind(t) == FALSE

\* unmarshaler(v) # nil: the type has the method UnmarshalParameter
unmarshaler(t) == t.k = "str"

\* the descriptor set builds for the target of a pointer or a slice element
Inner(t) == [type |-> t, json |-> FALSE, name |-> ""]

\* f: the descriptor (type, json flag, field name); s: the text; cur: the
\* value now at the location; gen: the number of the running call. The
\* result is the error and the value at the location afterwards.
RECURSIVE set(_, _, _, _)
set(f, s, cur, gen) ==
    LET t == f.type
        bad == [err |-> ConvertTypeError("", TypeName(t), s), val |-> cur]
    IN IF unmarshaler(t)
       THEN IF f.json
            THEN [err |-> PlainError("cannot use 'json' option on a type with a custom unmarshaller",
                                     f.name),
                  val |-> cur]
            ELSE [err |-> NoError, val |-> <<"c", "s", "-">> \o s]
       ELSE IF f.json THEN setJSON(f, s, cur)
       ELSE IF t.k = "duration" /\ ParseDuration(s).ok
            THEN [err |-> NoError, val |-> ParseDuration(s).n]
       ELSE CASE t.k = "ptr" ->
                    [err |-> NoError,
                     val |-> PtrTo(gen, set(Inner(t.elem), s, Zero(t.elem), gen).val)]
              [] t.k = "slice" ->
                    LET l == Split(s)
                    IN [err |-> NoError,
                        val |-> [i \in 1..Len(l) |->
                                    set(Inner(t.elem), l[i], Zero(t.elem), gen).val]]
              [] t.k = "string" -> [err |-> NoError, val |-> s]
              [] t.k = "bool" ->
                    IF ~ParseBool(s).ok THEN bad
                    ELSE [err |-> NoError, val |-> ParseBool(s).b]
              [] t.k \in SignedKinds \cup {"duration"} ->
                    IF ~ParseInt(s).ok \/ OverflowInt(t, ParseInt(s).n) THEN bad
                    ELSE [err |-> NoError, val |-> ParseInt(s).n]
              [] t.k \in UnsignedKinds ->
                    IF ~ParseUint(s).ok \/ OverflowUint(t, ParseUint(s).n) THEN bad
                    ELSE [err |-> NoError, val |-> ParseUint(s).n]
              [] t.k = "float64" ->
                    IF ~ParseFloat(s).ok THEN bad
                    ELSE [err |-> NoError, val |-> ParseFloat(s).f]
              [] OTHER -> [err |-> NoError, val |-> cur]

\* ------------------------------------------------------------------------
\* partitionFields and batchIterateFields
\* ------------------------------------------------------------------------
\* the predicate load passes to partitionFields
suffix(x) == x.decrypt

\* the first loop left out: i stays where it starts
firstSuffixSkipped(f, i) == i

\* the first loop: the 0-based index of the first element with the predicate
RECURSIVE firstSuffix(_, _)
firstSuffix(f, i) ==
    IF i < Len(f) /\ ~suffix(f[i + 1]) THEN firstSuffix(f, i + 1) ELSE i

\* the swap written as one assignment, f[i] = f[j]
SwapOverwriting(f, i, j) == [f EXCEPT ![i + 1] = f[j + 1]]

Swap(f, i, j) == [f EXCEPT ![i + 1] = f[j + 1], ![j + 1] = f[i + 1]]

\* the second loop, from j on
RECURSIVE swapLoop(_, _, _)
swapLoop(f, i, j) ==
    IF j >= Len(f) THEN [f |-> f, i |-> i]
    ELSE IF ~suffix(f[j + 1])
         THEN ByValue(Swap(f, i, j), LAMBDA g : swapLoop(g, i + 1, j + 1))
    ELSE swapLoop(f, i, j + 1)

\* partitionFields returning f[i+1:] for the second list
partitionFieldsSkipping(f) ==
    LET r == swapLoop(f, firstSuffix(f, 0), firstSuffix(f, 0) + 1)
    IN [p1 |-> Slice(r.f, 0, r.i), p2 |-> Slice(r.f, Min(r.i + 1, Len(r.f)), Len(r.f))]

partitionFields(f) ==
    LET r == swapLoop(f, firstSuffix(f, 0), firstSuffix(f, 0) + 1)
    IN [p1 |-> Slice(r.f, 0, r.i), p2 |-> Slice(r.f, r.i, Len(r.f))]

\* a batch that is the rest of the list
batchEndWhole(f, batchSize, i) == Len(f)

\* one iteration of the loop of batchIterateFields at index i: the end j of
\* the batch f[i:j]
batchEnd(f, batchSize, i) ==
    IF i + batchSize > Len(f) THEN Len(f) ELSE i + batchSize

\* ------------------------------------------------------------------------
\* The store client and loadParameters
\* ------------------------------------------------------------------------
\* GetParameters of the store: an error of the client at its failAt-th
\* request of a call and for more than maxParameters names; else the
\* parameters found, in request order, and the names not found
GetParameters(st, names, nth) ==
    IF nth = st.failAt
    THEN [err |-> PlainError("store", <<>>), Parameters |-> <<>>, InvalidParameters |-> <<>>]
    ELSE IF Len(names) > maxParameters
    THEN [err |-> PlainError("max parameters exceeded", <<>>),
          Parameters |-> <<>>, InvalidParameters |-> <<>>]
    ELSE [err |-> NoError,
          Parameters |-> SelectSeq([i \in 1..Len(names) |->
                                      IF names[i] \in DOMAIN st.Data
                                      THEN [Name |-> names[i], Value |-> st.Data[names[i]], ok |-> TRUE]
                                      ELSE [Name |-> names[i], Value |-> <<>>, ok |-> FALSE]],
                                   LAMBDA q : q.ok),
          InvalidParameters |-> SelectSeq(names, LAMBDA n : n \notin DOMAIN st.Data)]

parameterNames(f) == [i \in 1..Len(f) |-> f[i].key]

\* getParameters without the check of InvalidParameters
getParametersUnchecked(st, f, dec, nth) ==
    LET res == GetParameters(st, parameterNames(f), nth)
    IN IF res.err # NoError THEN [err |-> res.err, params |-> <<>>]
       ELSE [err |-> NoError, params |-> res.Parameters]

getParameters(st, f, dec, nth) ==
    LET res == GetParameters(st, parameterNames(f), nth)
    IN IF res.err # NoError THEN [err |-> res.err, params |-> <<>>]
       ELSE IF Len(res.InvalidParameters) # 0
            THEN [err |-> PlainError("invalid parameters", res.InvalidParameters),
                  params |-> <<>>]
       ELSE [err |-> NoError, params |-> res.Parameters]

\* the map from name to value (of the last parameter of that name)
indexParameters(params) ==
    [n \in {params[i].Name : i \in 1..Len(params)} |->
        LET last == CHOOSE i \in 1..Len(params) :
                        /\ params[i].Name = n
                        /\ \A j \in (i + 1)..Len(params) : params[j].Name # n
        IN params[last].Value]

\* the loop of loadParameters going on to the next descriptor after an error
\* of set
RECURSIVE setLoopOn(_, _, _, _, _, _, _)
setLoopOn(id, f, idx, k, r, done, gen) ==
    IF k > Len(f) THEN [err |-> NoError, rec |-> r, done |-> done]
    ELSE IF f[k].key \notin DOMAIN idx
         THEN [err |-> PlainError("failed to load parameter for key", f[k].key),
               rec |-> r, done |-> done]
    ELSE ByValue(set(f[k], idx[f[k].key], GetAt(id, r, f[k].path), gen),
                 LAMBDA res :
                    ByValue(SetAt(id, r, f[k].path, res.val),
                            LAMBDA r1 : setLoopOn(id, f, idx, k + 1, r1,
                                                  IF res.err # NoError THEN done
                                                  ELSE Append(done, f[k]), gen)))

\* the loop of loadParameters over the batch f from element k on; r is the
\* record, done the descriptors converted so far
RECURSIVE setLoop(_, _, _, _, _, _, _)
setLoop(id, f, idx, k, r, done, gen) ==
    IF k > Len(f) THEN [err |-> NoError, rec |-> r, done |-> done]
    ELSE IF f[k].key \notin DOMAIN idx
         THEN [err |-> PlainError("failed to load parameter for key", f[k].key),
               rec |-> r, done |-> done]
    ELSE ByValue(set(f[k], idx[f[k].key], GetAt(id, r, f[k].path), gen),
                 LAMBDA res :
                    IF res.err # NoError
                    THEN [err |-> IF res.err.type = "ConvertTypeError"
                                  THEN [res.err EXCEPT !.Field = f[k].name]
                                  ELSE res.err,
                          rec |-> SetAt(id, r, f[k].path, res.val), done |-> done]
                    ELSE ByValue(SetAt(id, r, f[k].path, res.val),
                                 LAMBDA r1 : setLoop(id, f, idx, k + 1, r1,
                                                     Append(done, f[k]), gen)))

\* loadParameters putting the record back as it was before the batch when a
\* conversion fails
loadParametersRestoring(st, id, r, f, dec, nth, gen) ==
    ByValue(getParameters(st, f, dec, nth),
            LAMBDA got :
                [req |-> [names |-> parameterNames(f), decrypt |-> dec]] @@
                IF got.err # NoError
                THEN [err |-> got.err, rec |-> r, done |-> <<>>]
                ELSE ByValue(setLoop(id, f, indexParameters(got.params), 1, r, <<>>, gen),
                             LAMBDA out : IF out.err # NoError
                                          THEN [out EXCEPT !.rec = r]
                                          ELSE out))

\* loadParameters on one batch: the request it sends, the error, the record
\* afterwards and the descriptors it converted
loadParameters(st, id, r, f, dec, nth, gen) ==
    ByValue(getParameters(st, f, dec, nth),
            LAMBDA got :
                [req |-> [names |-> parameterNames(f), decrypt |-> dec]] @@
                IF got.err # NoError
                THEN [err |-> got.err, rec |-> r, done |-> <<>>]
                ELSE ByValue(indexParameters(got.params),
                             LAMBDA idx : setLoop(id, f, idx, 1, r, <<>>, gen)))

\* ------------------------------------------------------------------------
\* The Watcher a call returns
\* ------------------------------------------------------------------------
\* hash reads the bytes the pointer points to: the Env field of the struct
hash(d) == <<"md5", d.env>>

\* defaultWatcher{}
NoWatcher == [ssm |-> FALSE, data |-> NilData, hash |-> <<>>]

\* the return of LoadWithParameters after walk and load, e the error so far:
\* reflect.ValueOf(data).Elem() panics unless data is a pointer, and
\* reflect.New of the element type is a pointer to a zero struct
return(e, d) ==
    IF e # NoError THEN [pc |-> "done", err |-> e, watcher |-> NoWatcher]
    ELSE IF d.kind = "nil" THEN [pc |-> "done", err |-> e, watcher |-> NoWatcher]
    ELSE IF d.kind # "ptr" THEN [pc |-> "crashed", err |-> e, watcher |-> NoWatcher]
    ELSE [pc |-> "done", err |-> e,
          watcher |-> [ssm |-> TRUE, data |-> PtrData(""), hash |-> hash(d)]]

\* ------------------------------------------------------------------------
\* The stores, records and arguments of the model
\* ------------------------------------------------------------------------
FullData ==
    (<<"string">> :> <<"a", " ", "s">>) @@
    (<<"pstring">> :> <<"p", "s">>) @@
    (<<"bool">> :> <<"t", "r", "u", "e">>) @@
    (<<"int">> :> <<"2">>) @@
    (<<"int8">> :> <<"-", "3">>) @@
    (<<"uint">> :> <<"7">>) @@
    (<<"uint8">> :> <<"8">>) @@
    (<<"float64">> :> <<"1", "2", ".", "2">>) @@
    (<<"duration">> :> <<"1", "0", "0", "0", "0", "0", "0", "0", "0", "0">>) @@
    (<<"durationstring">> :> <<"1", "s">>) @@
    (<<"sliceint">> :> <<"1", ",", "2", ",", "3">>) @@
    (<<"/myapp/", "dev", "/server">> :> <<"h">>) @@
    (<<"/myapp/", "dev", "/port">> :> <<"8", "0">>) @@
    (<<"/myapp/", "dev", "/password">> :> <<"p", "w">>)

\* a text no scalar kind but string converts, and one out of range for the
\* 8-bit kinds
BadText == <<"a", " ", "s">>
WideText == <<"3", "0", "0">>

Without(k) == [n \in (DOMAIN FullData) \ {k} |-> FullData[n]]
With(k, v) == [n \in DOMAIN FullData |-> IF n = k THEN v ELSE FullData[n]]

\* the keys the stores of the model lack or hold another text under
Victims ==
    {<<"string">>, <<"pstring">>, <<"bool">>, <<"int8">>, <<"uint8">>, <<"duration">>,
     <<"durationstring">>, <<"float64">>, <<"/myapp/", "dev", "/port">>}

Stores ==
    {[Data |-> FullData, failAt |-> n] : n \in 0..MaxFailAt}
    \cup {[Data |-> Without(k), failAt |-> 0] : k \in Victims}
    \cup {[Data |-> With(k, v), failAt |-> 0] :
              k \in Victims \ {<<"string">>, <<"pstring">>}, v \in {BadText, WideText}}

RecordTypes ==
    {"Mixed", "Interleaved", "Big", "Top", "BadTag", "BadNested", "Config", "Hidden"}

\* a value that is not the zero value, in targets the caller allocated
RECURSIVE Preset(_)
Preset(t) ==
    CASE t.k \in {"string", "str"} -> <<"o", "l", "d">>
      [] t.k = "bool" -> TRUE
      [] t.k \in SignedKinds \cup UnsignedKinds \cup {"duration"} -> <<"9">>
      [] t.k = "float64" -> [m |-> 9, e |-> 0]
      [] t.k = "ptr" -> PtrTo(0, Preset(t.elem))
      [] t.k = "slice" -> <<Preset(t.elem)>>
      [] t.k = "map" -> <<>>
      [] t.k = "struct" ->
            [i \in 1..Len(StructFields(t.id)) |-> Preset(StructFields(t.id)[i].type)]

\* v of Load(c, v): nil, a nil pointer to the struct type, the struct itself,
\* a pointer to the record, a pointer to an int
ArgKinds == {"nil", "nilptr", "struct", "ptr", "ptrint"}

DataChoices == {NilData, MapData("dev"), MapData("none"), StructData("dev"), PtrData("dev")}

Entries == {"Load", "LoadWithParameters"}

\* reflect.TypeOf(v)
TypeOf(a, id) ==
    CASE a = "nil" -> NilType
      [] a = "struct" -> [kind |-> "struct", name |-> id]
      [] a = "ptrint" -> [kind |-> "ptr", name |-> "*int"]
      [] OTHER -> [kind |-> "ptr", name |-> "*" \o id]

NoResult == [none |-> TRUE]

Summary(d, before, p, e, fs, r, w) ==
    [none |-> FALSE, data |-> d, before |-> before, pc |-> p, err |-> e,
     fetches |-> fs, rec |-> r, watcher |-> w]

\* ------------------------------------------------------------------------
\* Load and LoadWithParameters
\* ------------------------------------------------------------------------
\* load that goes on to the decrypt partition after the first plain batch
positionSkippingPlain(pl, de, ph, i) ==
    IF ph = "plain" /\ i > 0 /\ Len(de) > 0 THEN [phase |-> "decrypt", bi |-> 0]
    ELSE IF ph = "plain" /\ i < Len(pl) THEN [phase |-> "plain", bi |-> i]
    ELSE IF ph = "decrypt" /\ i < Len(de) THEN [phase |-> "decrypt", bi |-> i]
    ELSE [phase |-> "end", bi |-> 0]

\* where batchIterateFields continues: in the plain partition while it has
\* elements left, then in the decrypt partition, then nowhere
position(pl, de, ph, i) ==
    IF ph = "plain" /\ i < Len(pl) THEN [phase |-> "plain", bi |-> i]
    ELSE IF ph = "plain" /\ Len(de) > 0 THEN [phase |-> "decrypt", bi |-> 0]
    ELSE IF ph = "decrypt" /\ i < Len(de) THEN [phase |-> "decrypt", bi |-> i]
    ELSE [phase |-> "end", bi |-> 0]

\* a call that returns at once when it is not the first call for the record
beginOnce(a, id, r, d, gen) ==
    LET w == walk(IF a = "ptr" THEN TStruct(id) ELSE TInt,
                  IF a = "ptr" THEN r ELSE 0, d, gen)
        parts == partitionFields(w.p)
        pos == position(parts.p1, parts.p2, "plain", 0)
        none == [rec |-> r, plain |-> <<>>, decrypt |-> <<>>, phase |-> "end", bi |-> 0]
    IN IF a \in {"nil", "nilptr", "struct"}
       THEN return(InvalidTypeError(TypeOf(a, id)), d) @@ none
       ELSE IF gen > 1 THEN return(NoError, d) @@ none
       ELSE IF w.panic
            THEN [pc |-> "crashed", err |-> NoError, watcher |-> NoWatcher] @@ none
       ELSE IF w.err # NoError
            THEN return(w.err, d) @@ [none EXCEPT !.rec = w.v]
       ELSE (IF pos.phase = "end" THEN return(NoError, d)
             ELSE [pc |-> "loading", err |-> NoError, watcher |-> NoWatcher])
            @@ [rec |-> w.v, plain |-> parts.p1, decrypt |-> parts.p2,
                phase |-> pos.phase, bi |-> pos.bi]

\* LoadWithParameters up to the first request to the store: the argument
\* check, walk, partitionFields; a is the argument kind, id the struct type,
\* r the record, d the data, gen the number of the call
begin(a, id, r, d, gen) ==
    LET w == walk(IF a = "ptr" THEN TStruct(id) ELSE TInt,
                  IF a = "ptr" THEN r ELSE 0, d, gen)
        parts == partitionFields(w.p)
        pos == position(parts.p1, parts.p2, "plain", 0)
        none == [rec |-> r, plain |-> <<>>, decrypt |-> <<>>, phase |-> "end", bi |-> 0]
    IN IF a \in {"nil", "nilptr", "struct"}
       THEN return(InvalidTypeError(TypeOf(a, id)), d) @@ none
       ELSE IF w.panic
            THEN [pc |-> "crashed", err |-> NoError, watcher |-> NoWatcher] @@ none
       ELSE IF w.err # NoError
            THEN return(w.err, d) @@ [none EXCEPT !.rec = w.v]
       ELSE (IF pos.phase = "end" THEN return(NoError, d)
             ELSE [pc |-> "loading", err |-> NoError, watcher |-> NoWatcher])
            @@ [rec |-> w.v, plain |-> parts.p1, decrypt |-> parts.p2,
                phase |-> pos.phase, bi |-> pos.bi]

Finished(p) == p \in {"done", "crashed"}

Begin(e, d) ==
    /\ pc \in {"idle", "done", "crashed"}
    /\ calls < MaxCalls
    /\ \E out \in {begin(arg, typ, rec, d, calls + 1)} :
          /\ pc' = out.pc
          /\ err' = out.err
          /\ watcher' = out.watcher
          /\ rec' = out.rec
          /\ recWalked' = out.rec
          /\ plain' = out.plain
          /\ decrypt' = out.decrypt
          /\ phase' = out.phase
          /\ bi' = out.bi
          /\ results' = IF Finished(out.pc)
                        THEN [results EXCEPT ![e] =
                                 Summary(d, rec, out.pc, out.err, <<>>, out.rec, out.watcher)]
                        ELSE results
    /\ calls' = calls + 1
    /\ entry' = e
    /\ data' = d
    /\ recBefore' = rec
    /\ fetches' = <<>>
    /\ assigned' = <<>>
    /\ UNCHANGED <<store, typ, recInit, arg, tparams, conv, watch, checkVars>>

\* Load handing on an empty map of parameters, P{}, instead of nil
LoadWithEmptyMap == Begin("Load", MapData("none"))

\* Load(c, v)
Load == Begin("Load", NilData)

\* LoadWithParameters(c, v, data) with the caller's templating parameters
LoadWithParameters == Begin("LoadWithParameters", tparams)

\* one iteration of the loop of batchIterateFields in load: loadParameters
\* on the batch at index i of the partition ph, then where the call goes on
batch(st, id, r, pl, de, ph, i, d, nth, gen) ==
    LET cur == IF ph = "plain" THEN pl ELSE de
        j == batchEnd(cur, maxParameters, i)
        lp == loadParameters(st, id, r, Slice(cur, i, j), ph = "decrypt", nth, gen)
        pos == position(pl, de, ph, j)
    IN (IF lp.err # NoError THEN return(lp.err, d) @@ [phase |-> ph, bi |-> i]
        ELSE IF pos.phase = "end" THEN return(NoError, d) @@ [phase |-> ph, bi |-> i]
        ELSE [pc |-> "loading", err |-> NoError, watcher |-> NoWatcher,
              phase |-> pos.phase, bi |-> pos.bi])
       @@ [rec |-> lp.rec, req |-> lp.req, done |-> lp.done]

\* one iteration of batchIterateFields: loadParameters on the next batch,
\* then the next iteration, the next partition or the return
LoadBatch ==
    /\ pc = "loading"
    /\ \E out \in {batch(store, typ, rec, plain, decrypt, phase, bi, data,
                            Len(fetches) + 1, calls)} :
          /\ pc' = out.pc
          /\ err' = out.err
          /\ watcher' = out.watcher
          /\ rec' = out.rec
          /\ fetches' = Append(fetches, out.req)
          /\ assigned' = assigned \o out.done
          /\ phase' = out.phase
          /\ bi' = out.bi
          /\ results' = IF Finished(out.pc)
                        THEN [results EXCEPT ![entry] =
                                 Summary(data, recBefore, out.pc, out.err,
                                         Append(fetches, out.req), out.rec, out.watcher)]
                        ELSE results
    /\ UNCHANGED <<store, typ, recInit, arg, tparams, entry, data, plain, decrypt,
                   calls, recBefore, recWalked, conv, watch, checkVars>>

\* between calls the caller builds the record anew
NewRecord ==
    /\ pc \in {"done", "crashed"}
    /\ calls < MaxCalls
    /\ rec # recInit
    /\ rec' = recInit
    /\ pc' = "idle"
    /\ UNCHANGED <<store, typ, recInit, arg, tparams, entry, data, plain, decrypt,
                   phase, bi, fetches, assigned, err, watcher, calls, recBefore,
                   recWalked, results, conv, watch, checkVars>>

NoTag == [tag |-> <<>>, data |-> NilData]
NotPartitioned == [done |-> FALSE, p1 |-> <<>>, p2 |-> <<>>]
NoIteration == [f |-> <<>>, batchSize |-> 1, failAt |-> 0, i |-> 0, calls |-> <<>>,
                pc |-> "none", err |-> NoError]
\* no goroutine of Watch. w: the watcher the goroutine got; ticks: the ticks
\* it took; reqs: the requests to the store of each tick; updated: the calls
\* of the callback; given and first: the data and the requests of the call
\* that returned the watcher
NotWatching == [pc |-> "none", w |-> NoWatcher, given |-> NilData, first |-> <<>>,
                ticks |-> 0, reqs |-> <<>>, updated |-> 0]
NotParsed == [err |-> NoError, fld |-> NoField, parsed |-> FALSE]
\* no call of walk. id, v, d: the struct type, its value and the data of the
\* call; stack: per nested call of walk its struct type, the path of the
\* field it walks and its loop index i; p: the descriptors so far
NotWalking == [pc |-> "none", id |-> "Mixed", given |-> <<>>, v |-> <<>>, d |-> NilData,
               stack |-> <<>>, p |-> <<>>, err |-> NoError]

Init ==
    /\ arg \in ArgKinds
    /\ store \in IF arg = "ptr" THEN Stores ELSE {[Data |-> FullData, failAt |-> 0]}
    /\ typ \in IF arg = "ptr" THEN RecordTypes ELSE {"Mixed", "Top"}
    /\ recInit \in {Zero(TStruct(typ)), Preset(TStruct(typ))}
    /\ tparams \in DataChoices
    /\ rec = recInit
    /\ pc = "idle"
    /\ entry = "Load"
    /\ data = NilData
    /\ plain = <<>>
    /\ decrypt = <<>>
    /\ phase = "end"
    /\ bi = 0
    /\ fetches = <<>>
    /\ assigned = <<>>
    /\ err = NoError
    /\ watcher = NoWatcher
    /\ calls = 0
    /\ recBefore = recInit
    /\ recWalked = recInit
    /\ results = [e \in Entries |-> NoResult]
    /\ tagIn = NoTag
    /\ tagOut = NotParsed
    /\ conv = NoConv
    /\ partIn = <<>>
    /\ partOut = NotPartitioned
    /\ iter = NoIteration
    /\ watch = NotWatching
    /\ wk = NotWalking

Next == Load \/ LoadWithParameters \/ LoadBatch \/ NewRecord

Spec == Init /\ [][Next]_vars

\* ------------------------------------------------------------------------
\* Watch on the Watcher a call returned
\* ------------------------------------------------------------------------
\* LoadWithParameters from its loop over the batches to its return: s is the
\* call so far, reqs the requests it has sent
RECURSIVE loadFrom(_, _, _, _, _, _)
loadFrom(st, id, d, gen, s, reqs) ==
    IF s.pc # "loading" THEN [pc |-> s.pc, err |-> s.err, rec |-> s.rec, reqs |-> reqs]
    ELSE ByValue(batch(st, id, s.rec, s.plain, s.decrypt, s.phase, s.bi, d,
                       Len(reqs) + 1, gen),
                 LAMBDA out : loadFrom(st, id, d, gen,
                                       [plain |-> s.plain, decrypt |-> s.decrypt] @@ out,
                                       Append(reqs, out.req)))

\* LoadWithParameters(w.ssm, w.v, w.data) of a tick; w.v is nil in
\* defaultWatcher{} and the pointer to the record else
tickLoad(st, id, r, w, gen) ==
    IF ~w.ssm
    THEN [pc |-> "done", err |-> InvalidTypeError(NilType), rec |-> r, reqs |-> <<>>]
    ELSE loadFrom(st, id, w.data, gen, begin("ptr", id, r, w.data, gen), <<>>)

\* hash(i) panics in Value.Pointer for the zero Value of a nil interface
hashPanics(d) == d.kind = "nil"

\* Watch(frequency, updated): start the goroutine on a copy of the watcher
Watch ==
    /\ pc = "done"
    /\ watch.pc = "none"
    /\ watch' = [watch EXCEPT !.pc = "ticking", !.w = watcher, !.given = data,
                              !.first = fetches]
    /\ UNCHANGED <<loadVars, conv, checkVars>>

\* a tick whose goroutine goes on after updated()
TickWithoutReturn ==
    /\ watch.pc = "ticking"
    /\ watch.ticks < MaxTicks
    /\ pc # "loading"
    /\ \E out \in {tickLoad(store, typ, rec, watch.w, MaxCalls + watch.ticks + 1)} :
          /\ rec' = out.rec
          /\ watch' = [watch EXCEPT
                         !.ticks = @ + 1,
                         !.reqs = Append(@, out.reqs),
                         !.pc = IF out.pc = "crashed" \/ hashPanics(watch.w.data)
                                THEN "crashed" ELSE @,
                         !.updated = IF out.pc # "crashed" /\ ~hashPanics(watch.w.data)
                                        /\ hash(watch.w.data) # watch.w.hash
                                     THEN @ + 1 ELSE @]
    /\ UNCHANGED <<store, typ, recInit, arg, tparams, pc, entry, data, plain, decrypt,
                   phase, bi, fetches, assigned, err, watcher, calls, recBefore,
                   recWalked, results, conv, checkVars>>

\* one iteration of the loop of the goroutine: the tick, LoadWithParameters
\* with the watcher's fields, its result dropped; then updated() and the
\* return when the hash of the watcher's data is not the watcher's hash. The
\* ticks of the model fall between the steps of the caller's calls.
Tick ==
    /\ watch.pc = "ticking"
    /\ watch.ticks < MaxTicks
    /\ pc # "loading"
    /\ \E out \in {tickLoad(store, typ, rec, watch.w, MaxCalls + watch.ticks + 1)} :
          /\ rec' = out.rec
          /\ watch' = [watch EXCEPT
                         !.ticks = @ + 1,
                         !.reqs = Append(@, out.reqs),
                         !.pc = IF out.pc = "crashed" \/ hashPanics(watch.w.data)
                                THEN "crashed"
                                ELSE IF hash(watch.w.data) # watch.w.hash
                                     THEN "stopped" ELSE @,
                         !.updated = IF out.pc # "crashed" /\ ~hashPanics(watch.w.data)
                                        /\ hash(watch.w.data) # watch.w.hash
                                     THEN @ + 1 ELSE @]
    /\ UNCHANGED <<store, typ, recInit, arg, tparams, pc, entry, data, plain, decrypt,
                   phase, bi, fetches, assigned, err, watcher, calls, recBefore,
                   recWalked, results, conv, checkVars>>

\* the parameters of the callers of the model: none, a map, and pointers to
\* a struct{ Env string }
WatchData == {NilData, MapData("dev"), PtrData("dev"), PtrData("")}

InitWatch ==
    /\ arg = "ptr"
    /\ store = [Data |-> FullData, failAt |-> 0]
    /\ typ \in {"Mixed", "Watched"}
    /\ recInit \in {Zero(TStruct(typ)), Preset(TStruct(typ))}
    /\ tparams \in WatchData
    /\ rec = recInit
    /\ pc = "idle"
    /\ entry = "Load"
    /\ data = NilData
    /\ plain = <<>>
    /\ decrypt = <<>>
    /\ phase = "end"
    /\ bi = 0
    /\ fetches = <<>>
    /\ assigned = <<>>
    /\ err = NoError
    /\ watcher = NoWatcher
    /\ calls = 0
    /\ recBefore = recInit
    /\ recWalked = recInit
    /\ results = [e \in Entries |-> NoResult]
    /\ tagIn = NoTag
    /\ tagOut = NotParsed
    /\ conv = NoConv
    /\ partIn = <<>>
    /\ partOut = NotPartitioned
    /\ iter = NoIteration
    /\ watch = NotWatching
    /\ wk = NotWalking

NextWatch == Load \/ LoadWithParameters \/ LoadBatch \/ Watch \/ Tick

SpecWatch == InitWatch /\ [][NextWatch]_vars

\* ------------------------------------------------------------------------
\* Load of a struct of one field, for every type and text of ConvTypes and
\* ConvTexts
\* ------------------------------------------------------------------------
IntTypes == {[k |-> x] : x \in SignedKinds \cup UnsignedKinds}

ConvTypes ==
    IntTypes \cup {TStr, TSlice(TInt), TSlice(TInt8), TSlice(TBool), TPtr(TPtr(TInt16))}

\* a numeral with its last digit moved by d
Bump(m, d) ==
    [m EXCEPT ![Len(m)] = CHOOSE c \in Digits : DigitVal(c) = DigitVal(m[Len(m)]) + d]

\* the numerals around the bounds of the integer types
Edges ==
    UNION {{Bump(Cutoff(w), -1), Cutoff(w), <<"-">> \o Cutoff(w),
            <<"-">> \o Bump(Cutoff(w), 1), MaxUint(w), Bump(MaxUint(w), 1)} :
           w \in {8, 16, 32, 64}}

ConvTexts ==
    Edges \cup
    {<<>>, <<"0">>, <<"-", "0">>, <<"+", "5">>, <<"-", "1">>, <<"0", "0", "7">>,
     <<"-">>, <<"x">>, <<"1", "x">>, <<"1", ",", "2", ",", "3">>,
     <<"1", ",", "x", ",", "3">>, <<"3", "0", "0", ",", "1">>, <<"t", "r", "u", "e">>,
     <<"9", "9", "9", "9", "9", "9", "9", "9", "9", "9",
       "9", "9", "9", "9", "9", "9", "9", "9", "9", "9", "9">>}

InitConv ==
    /\ conv \in {c \in [type : ConvTypes, json : BOOLEAN, text : ConvTexts] :
                    c.json => c.type = TStr}
    /\ typ = "Conv"
    /\ store = [Data |-> (<<"k">> :> conv.text), failAt |-> 0]
    /\ arg = "ptr"
    /\ recInit \in {Zero(TStruct("Conv")), Preset(TStruct("Conv"))}
    /\ tparams = NilData
    /\ rec = recInit
    /\ pc = "idle"
    /\ entry = "Load"
    /\ data = NilData
    /\ plain = <<>>
    /\ decrypt = <<>>
    /\ phase = "end"
    /\ bi = 0
    /\ fetches = <<>>
    /\ assigned = <<>>
    /\ err = NoError
    /\ watcher = NoWatcher
    /\ calls = 0
    /\ recBefore = recInit
    /\ recWalked = recInit
    /\ results = [e \in Entries |-> NoResult]
    /\ tagIn = NoTag
    /\ tagOut = NotParsed
    /\ partIn = <<>>
    /\ partOut = NotPartitioned
    /\ iter = NoIteration
    /\ watch = NotWatching
    /\ wk = NotWalking

SpecConv == InitConv /\ [][Next]_vars

\* ------------------------------------------------------------------------
\* partitionFields on every list of flags up to MaxPartLen, and
\* batchIterateFields on lists up to MaxIterLen
\* ------------------------------------------------------------------------
\* no call of Load: the variables of Load as Init leaves them, for one store
\* and record
NoLoad ==
    /\ store = [Data |-> FullData, failAt |-> 0]
    /\ typ = "Mixed"
    /\ recInit = Zero(TStruct("Mixed"))
    /\ arg = "ptr"
    /\ tparams = NilData
    /\ rec = recInit
    /\ pc = "idle"
    /\ entry = "Load"
    /\ data = NilData
    /\ plain = <<>>
    /\ decrypt = <<>>
    /\ phase = "end"
    /\ bi = 0
    /\ fetches = <<>>
    /\ assigned = <<>>
    /\ err = NoError
    /\ watcher = NoWatcher
    /\ calls = 0
    /\ recBefore = recInit
    /\ recWalked = recInit
    /\ results = [e \in Entries |-> NoResult]
    /\ conv = NoConv
    /\ watch = NotWatching

\* the lists of makePartitionFields: descriptors that differ in their place
\* in the list, with every choice of decrypt flags
FlagLists(n) ==
    {[i \in 1..n |-> [id |-> i, decrypt |-> flags[i]]] : flags \in [1..n -> BOOLEAN]}

InitPartition ==
    /\ partIn \in UNION {FlagLists(n) : n \in 0..MaxPartLen}
    /\ partOut = NotPartitioned
    /\ iter = NoIteration
    /\ tagIn = NoTag
    /\ tagOut = NotParsed
    /\ wk = NotWalking
    /\ NoLoad

Partition ==
    /\ ~partOut.done
    /\ partOut' = [done |-> TRUE] @@ partitionFields(partIn)
    /\ UNCHANGED <<partIn, iter, tagIn, tagOut, loadVars, conv, watch, wk>>

NextPartition == Partition

SpecPartition == InitPartition /\ [][NextPartition]_vars

\* a run of batchIterateFields(f, batchSize, g), g returning an error at its
\* failAt-th call (never when 0); calls lists the slices g was called with
CallbackError == PlainError("callback", <<>>)

InitIterate ==
    /\ iter \in {[f |-> [i \in 1..n |-> [id |-> i, decrypt |-> FALSE]],
                   batchSize |-> b, failAt |-> k, i |-> 0, calls |-> <<>>,
                   pc |-> "running", err |-> NoError] :
                  n \in 0..MaxIterLen, b \in 1..MaxBatchSize, k \in 0..MaxIterFail}
    /\ partIn = <<>>
    /\ partOut = NotPartitioned
    /\ tagIn = NoTag
    /\ tagOut = NotParsed
    /\ wk = NotWalking
    /\ NoLoad

\* one iteration that goes on from j whatever g returns
IterateBatchIgnoringError ==
    /\ iter.pc = "running"
    /\ iter.i < Len(iter.f)
    /\ \E j \in {batchEnd(iter.f, iter.batchSize, iter.i)} :
          iter' = [iter EXCEPT !.calls = Append(@, Slice(iter.f, iter.i, j)), !.i = j]
    /\ UNCHANGED <<partIn, partOut, tagIn, tagOut, loadVars, conv, watch, wk>>

\* one iteration of the loop: g on f[i:j]; return its error or go on from j
IterateBatch ==
    /\ iter.pc = "running"
    /\ iter.i < Len(iter.f)
    /\ \E j \in {batchEnd(iter.f, iter.batchSize, iter.i)} :
          iter' = IF Len(iter.calls) + 1 = iter.failAt
                  THEN [iter EXCEPT !.calls = Append(@, Slice(iter.f, iter.i, j)),
                                    !.pc = "returned", !.err = CallbackError]
                  ELSE [iter EXCEPT !.calls = Append(@, Slice(iter.f, iter.i, j)),
                                    !.i = j]
    /\ UNCHANGED <<partIn, partOut, tagIn, tagOut, loadVars, conv, watch, wk>>

\* the loop has ended: return nil
IterateReturn ==
    /\ iter.pc = "running"
    /\ iter.i >= Len(iter.f)
    /\ iter' = [iter EXCEPT !.pc = "returned"]
    /\ UNCHANGED <<partIn, partOut, tagIn, tagOut, loadVars, conv, watch, wk>>

NextIterate == IterateBatch \/ IterateReturn

SpecIterate == InitIterate /\ [][NextIterate]_vars

\* ------------------------------------------------------------------------
\* walk, one field at a time
\* ------------------------------------------------------------------------
\* fv.Set(reflect.New(fv.Type().Elem())) on the pointer field at path
RECURSIVE Allocate(_, _, _, _)
Allocate(id, v, path, gen) ==
    LET i == Head(path)
        ft == StructFields(id)[i].type
    IN IF Len(path) = 1 THEN [v EXCEPT ![i] = PtrTo(gen, Zero(ft.elem))]
       ELSE [v EXCEPT ![i] =
                IF ft.k = "ptr"
                THEN [v[i] EXCEPT !.elem = Allocate(ft.elem.id, v[i].elem, Tail(path), gen)]
                ELSE Allocate(ft.id, v[i], Tail(path), gen)]

\* the innermost call of walk
Top == wk.stack[Len(wk.stack)]

\* the stack with the loop index of the innermost call one further
Advanced == [wk.stack EXCEPT ![Len(wk.stack)].i = @ + 1]

\* the records of the callers of walk: types without and with nested
\* structs, pointers, unexported and ignored fields, tags without a key, and
\* a list node that points to the next node
WalkTypes == {"Mixed", "Top", "BadTag", "BadNested", "Hidden", "Ignored", "Node"}

InitWalk ==
    /\ \E id \in WalkTypes :
       \E v \in {Zero(TStruct(id))} \cup (IF id = "Node" THEN {} ELSE {Preset(TStruct(id))}) :
       \E d \in DataChoices :
          wk = [pc |-> "walking", id |-> id, given |-> v, v |-> v, d |-> d,
                stack |-> <<[id |-> id, path |-> <<>>, i |-> 1]>>,
                p |-> <<>>, err |-> NoError]
    /\ partIn = <<>>
    /\ partOut = NotPartitioned
    /\ iter = NoIteration
    /\ tagIn = NoTag
    /\ tagOut = NotParsed
    /\ NoLoad

\* one iteration of the loop of walk on field i of the innermost call: skip
\* an unexported field; give a pointer field a new target; parse the tag and
\* return its error; append the descriptor; or, without one, call walk on a
\* struct. A call that the stack has no room for ends the program.
WalkField ==
    /\ wk.pc = "walking"
    /\ Top.i <= Len(StructFields(Top.id))
    /\ LET ft == StructFields(Top.id)[Top.i]
           path == Append(Top.path, Top.i)
           v1 == IF ft.type.k = "ptr" THEN Allocate(wk.id, wk.v, path, 1) ELSE wk.v
           pf == tag(ft, wk.d)
           et == Indirect(ft.type)
       IN wk' = IF ft.pkgPath # "" THEN [wk EXCEPT !.stack = Advanced]
                ELSE IF pf.err # NoError
                     THEN [wk EXCEPT !.pc = "returned", !.v = v1, !.stack = <<>>,
                                     !.p = <<>>, !.err = pf.err]
                ELSE IF pf.fld # NoField
                     THEN [wk EXCEPT !.v = v1, !.stack = Advanced,
                                     !.p = Append(@, [key |-> pf.fld.key,
                                                      decrypt |-> pf.fld.decrypt,
                                                      json |-> pf.fld.json,
                                                      path |-> path,
                                                      name |-> ft.name,
                                                      type |-> et])]
                ELSE IF et.k = "struct"
                     THEN (IF Len(wk.stack) >= MaxDepth
                           THEN [wk EXCEPT !.pc = "overflow", !.v = v1]
                           ELSE [wk EXCEPT !.v = v1,
                                           !.stack = Append(Advanced,
                                                 [id |-> et.id, path |-> path, i |-> 1])])
                ELSE [wk EXCEPT !.v = v1, !.stack = Advanced]
    /\ UNCHANGED <<tagIn, tagOut, partIn, partOut, iter, loadVars, conv, watch>>

\* the loop of the innermost call has ended: return p, nil
WalkReturn ==
    /\ wk.pc = "walking"
    /\ Top.i > Len(StructFields(Top.id))
    /\ wk' = [wk EXCEPT !.stack = SubSeq(@, 1, Len(@) - 1),
                        !.pc = IF Len(wk.stack) = 1 THEN "returned" ELSE @]
    /\ UNCHANGED <<tagIn, tagOut, partIn, partOut, iter, loadVars, conv, watch>>

NextWalk == WalkField \/ WalkReturn

SpecWalk == InitWalk /\ [][NextWalk]_vars

\* the goroutine that runs walk takes its steps
FairSpecWalk == SpecWalk /\ WF_vars(NextWalk)

\* ------------------------------------------------------------------------
\* The tag parser on every annotation up to MaxTagLen symbols
\* ------------------------------------------------------------------------
TagAlphabet == {"k", " ", ",", "-", "decrypt", "json", "{{.env}}"}

Annotations == UNION {[1..n -> TagAlphabet] : n \in 0..MaxTagLen}

InitTag ==
    /\ tagIn \in [tag : Annotations, data : DataChoices]
    /\ tagOut = NotParsed
    /\ conv = NoConv
    /\ partIn = <<>>
    /\ partOut = NotPartitioned
    /\ iter = NoIteration
    /\ watch = NotWatching
    /\ wk = NotWalking
    /\ store = [Data |-> FullData, failAt |-> 0]
    /\ typ = "Mixed"
    /\ recInit = Zero(TStruct("Mixed"))
    /\ arg = "ptr"
    /\ tparams = NilData
    /\ rec = recInit
    /\ pc = "idle"
    /\ entry = "Load"
    /\ data = NilData
    /\ plain = <<>>
    /\ decrypt = <<>>
    /\ phase = "end"
    /\ bi = 0
    /\ fetches = <<>>
    /\ assigned = <<>>
    /\ err = NoError
    /\ watcher = NoWatcher
    /\ calls = 0
    /\ recBefore = recInit
    /\ recWalked = recInit
    /\ results = [e \in Entries |-> NoResult]

ParseTag ==
    /\ ~tagOut.parsed
    /\ tagOut' = tag(F("Field", tagIn.tag, TString), tagIn.data) @@ [parsed |-> TRUE]
    /\ UNCHANGED <<tagIn, loadVars, conv, partIn, partOut, iter, watch, wk>>

NextTag == ParseTag

SpecTag == InitTag /\ [][NextTag]_vars

\* ------------------------------------------------------------------------
\* Reference notions the properties are stated with
\* ------------------------------------------------------------------------
\* Base-10 literals and the ranges of the integer types: an
\* optional sign (none for an unsigned type) and digits; the number of a
\* literal as a numeral; 2^k as a numeral
LiteralDigits(s) == IF s # <<>> /\ Head(s) \in {"+", "-"} THEN Tail(s) ELSE s

IsLiteral(s, signed) ==
    /\ LiteralDigits(s) # <<>>
    /\ \A i \in 1..Len(LiteralDigits(s)) : LiteralDigits(s)[i] \in Digits
    /\ signed \/ LiteralDigits(s) = s

LiteralMagnitude(s) ==
    LET d == LiteralDigits(s)
        inked == {i \in 1..Len(d) : d[i] # "0"}
    IN IF inked = {} THEN <<"0">>
       ELSE SubSeq(d, CHOOSE i \in inked : \A j \in inked : i <= j, Len(d))

LiteralNegative(s) == Head(s) = "-" /\ LiteralMagnitude(s) # <<"0">>

LiteralValue(s) ==
    IF LiteralNegative(s) THEN <<"-">> \o LiteralMagnitude(s) ELSE LiteralMagnitude(s)

\* the numeral of m[1..i] * c + carry, for a numeral m and a number c
RECURSIVE TimesFrom(_, _, _, _)
TimesFrom(m, i, c, carry) ==
    IF i = 0 THEN (IF carry = 0 THEN <<>> ELSE NumeralOf(carry))
    ELSE ByValue(DigitVal(m[i]) * c + carry,
                 LAMBDA x : Append(TimesFrom(m, i - 1, c, x \div 10),
                                   CHOOSE d \in Digits : DigitVal(d) = x % 10))

RECURSIVE Pow2(_)
Pow2(k) ==
    IF k < 16 THEN NumeralOf(2 ^ k)
    ELSE ByValue(Pow2(k - 16), LAMBDA m : TimesFrom(m, Len(m), 2 ^ 16, 0))

\* the bounds of the integer types
TwoTo7 == Pow2(7)
TwoTo8 == Pow2(8)
TwoTo15 == Pow2(15)
TwoTo16 == Pow2(16)
TwoTo31 == Pow2(31)
TwoTo32 == Pow2(32)
TwoTo63 == Pow2(63)
TwoTo64 == Pow2(64)

TwoTo(k) ==
    CASE k = 7 -> TwoTo7 [] k = 8 -> TwoTo8 [] k = 15 -> TwoTo15 [] k = 16 -> TwoTo16
      [] k = 31 -> TwoTo31 [] k = 32 -> TwoTo32 [] k = 63 -> TwoTo63 [] k = 64 -> TwoTo64

\* a < b of two numerals without sign
Below(a, b) ==
    \/ Len(a) < Len(b)
    \/ Len(a) = Len(b) /\ \E i \in 1..Len(a) :
          SubSeq(a, 1, i - 1) = SubSeq(b, 1, i - 1) /\ DigitVal(a[i]) < DigitVal(b[i])

WidthOf(t) ==
    CASE t.k \in {"int8", "uint8"} -> 8
      [] t.k \in {"int16", "uint16"} -> 16
      [] t.k \in {"int32", "uint32"} -> 32
      [] t.k \in {"int64", "uint64", "int", "uint"} -> 64

\* the literal spells a number of the type: -2^(w-1) <= n < 2^(w-1) for a
\* signed type of width w, 0 <= n < 2^w for an unsigned one
Fits(t, s) ==
    IF t.k \in SignedKinds
    THEN /\ IsLiteral(s, TRUE)
         /\ IF LiteralNegative(s)
            THEN ~Below(TwoTo(WidthOf(t) - 1), LiteralMagnitude(s))
            ELSE Below(LiteralMagnitude(s), TwoTo(WidthOf(t) - 1))
    ELSE /\ IsLiteral(s, FALSE)
         /\ Below(LiteralMagnitude(s), TwoTo(WidthOf(t)))

\* a text converts to a type, and the value it converts to
RECURSIVE Convertible(_, _)
Convertible(t, s) ==
    CASE t.k \in {"string", "str"} -> TRUE
      [] t.k = "bool" -> ParseBool(s).ok
      [] t.k \in SignedKinds \cup UnsignedKinds -> Fits(t, s)
      [] t.k = "float64" -> ParseFloat(s).ok
      [] t.k = "duration" -> ParseDuration(s).ok \/ ParseInt(s).ok
      [] t.k = "slice" -> \A i \in 1..Len(Split(s)) : Convertible(t.elem, Split(s)[i])
      [] OTHER -> FALSE

RECURSIVE Converted(_, _)
Converted(t, s) ==
    CASE t.k = "string" -> s
      [] t.k = "str" -> <<"c", "s", "-">> \o s
      [] t.k = "bool" -> ParseBool(s).b
      [] t.k \in SignedKinds \cup UnsignedKinds -> LiteralValue(s)
      [] t.k = "float64" -> ParseFloat(s).f
      [] t.k = "duration" -> IF ParseDuration(s).ok THEN ParseDuration(s).n
                             ELSE ParseInt(s).n
      [] t.k = "slice" -> [i \in 1..Len(Split(s)) |-> Converted(t.elem, Split(s)[i])]

ScalarKinds == SignedKinds \cup UnsignedKinds \cup {"bool", "float64", "duration"}

\* the fields of a struct the walk reaches, in depth-first declaration order:
\* the exported fields, and below an exported struct field (or pointer to a
\* struct) without a binding annotation its fields in turn
Annotated(ft) ==
    ft.tag # <<>> /\ ft.tag # <<"-">>

EmptyKey(ft) ==
    /\ Annotated(ft)
    /\ \E n \in 0..Len(ft.tag) :
          /\ n = Len(ft.tag) \/ ft.tag[n + 1] = ","
          /\ \A j \in 1..n : ft.tag[j] = " "

RECURSIVE Reached(_, _)
Reached(id, path) ==
    Concat([i \in 1..Len(StructFields(id)) |->
        LET ft == StructFields(id)[i]
            here == <<[path |-> Append(path, i), field |-> ft]>>
        IN IF ft.pkgPath # "" THEN <<>>
           ELSE IF ~Annotated(ft) /\ Indirect(ft.type).k = "struct"
                THEN here \o Reached(Indirect(ft.type).id, Append(path, i))
           ELSE here])

\* the reached fields with an annotation, the bound fields; and those whose
\* annotation has an empty key
Bound(id) == SelectSeq(Reached(id, <<>>), LAMBDA x : Annotated(x.field))
BadTags(id) == SelectSeq(Reached(id, <<>>), LAMBDA x : EmptyKey(x.field))

\* the key of a bound field under the parameters d
KeyOf(x, d) == tag(x.field, d).fld.key

\* every bound field has its key in the store with a convertible text
AllConvertible(id, st, d) ==
    /\ BadTags(id) = <<>>
    /\ \A i \in 1..Len(Bound(id)) :
          LET x == Bound(id)[i]
          IN /\ KeyOf(x, d) \in DOMAIN st.Data
             /\ Convertible(Indirect(x.field.type), st.Data[KeyOf(x, d)])

\* a value without the identity of the pointer targets in it
RECURSIVE Contents(_, _)
Contents(t, v) ==
    CASE t.k = "ptr" -> IF v.nil THEN <<>> ELSE <<Contents(t.elem, v.elem)>>
      [] t.k = "slice" -> [i \in 1..Len(v) |-> Contents(t.elem, v[i])]
      [] t.k = "struct" ->
            [i \in 1..Len(StructFields(t.id)) |->
                Contents(StructFields(t.id)[i].type, v[i])]
      [] OTHER -> v

\* the descriptors of the call in processing order
Order == plain \o decrypt

\* the number of the request that fetches the n-th descriptor in processing order
Batches(n) == (n + maxParameters - 1) \div maxParameters

RequestOf(n) ==
    IF n <= Len(plain) THEN Batches(n)
    ELSE Batches(Len(plain)) + Batches(n - Len(plain))

Returned == pc = "done"

\* ------------------------------------------------------------------------
\* Properties
\* ------------------------------------------------------------------------
\* C1: when every bound field of the record has its key in the store with a
\* convertible text (and the store client answers), Load returns no error and
\* every bound field holds the conversion of the text under its own key.
C1_LoadPopulatesEveryBoundField ==
    (/\ Finished(pc)
     /\ entry = "Load"
     /\ arg = "ptr"
     /\ store.failAt = 0
     /\ AllConvertible(typ, store, NilData))
    => /\ Returned
       /\ err = NoError
       /\ \A i \in 1..Len(Bound(typ)) :
             LET x == Bound(typ)[i]
             IN GetAt(typ, rec, x.path) =
                    Converted(Indirect(x.field.type), store.Data[KeyOf(x, NilData)])

\* a Load of the struct Big returned without error after three requests
C1_Witness ==
    /\ Returned
    /\ entry = "Load"
    /\ arg = "ptr"
    /\ typ = "Big"
    /\ AllConvertible(typ, store, NilData)
    /\ recInit # Zero(TStruct(typ))
    /\ Len(fetches) = 3
    /\ Len(decrypt) = 3

\* C2: Load of nil or of a value that is no pointer fails with
\* InvalidTypeError, sends no request, changes nothing, and the message for
\* nil is "nil type", for the value "non-pointer Load(<type>)".
C2_NilAndNonPointerRejected ==
    arg \in {"nil", "struct"}
    => /\ pc \in {"idle", "done"}
       /\ fetches = <<>>
       /\ assigned = <<>>
       /\ rec = recInit
       /\ Returned
             => /\ err.type = "InvalidTypeError"
                /\ watcher = NoWatcher
                /\ InvalidTypeErrorMessage(err) =
                       IF arg = "nil" THEN <<"nil type">>
                       ELSE <<"non-pointer Load(", typ, ")">>
       /\ InvalidTypeErrorMessage(InvalidTypeError(TypeOf("nil", typ))) #
              InvalidTypeErrorMessage(InvalidTypeError(TypeOf("struct", typ)))

C2_Witness ==
    /\ Returned
    /\ arg = "struct"
    /\ entry = "Load"
    /\ err.type = "InvalidTypeError"

\* C3 (as claimed): Load of a pointer to something that is no struct returns
\* an InvalidTypeError, without a panic and without a request.
C3_PointerToNonStructRejected ==
    arg = "ptrint"
    => /\ pc \in {"idle", "done"}
       /\ fetches = <<>>
       /\ Returned => err.type = "InvalidTypeError"

\* C4: Load(store, record) and LoadWithParameters(store, record, nil) from
\* the same record end the same way: error, requests, record, watcher.
C4_LoadIsLoadWithNilParameters ==
    LET a == results["Load"]
        b == results["LoadWithParameters"]
    IN (~a.none /\ ~b.none /\ b.data = NilData /\ a.before = b.before)
       => /\ a.pc = b.pc
          /\ a.err = b.err
          /\ a.fetches = b.fetches
          /\ Contents(TStruct(typ), a.rec) = Contents(TStruct(typ), b.rec)
          /\ a.watcher = b.watcher

\* both entry points have run on the same record, with requests sent
C4_Witness ==
    /\ ~results["Load"].none
    /\ ~results["LoadWithParameters"].none
    /\ results["LoadWithParameters"].data = NilData
    /\ results["Load"].before = results["LoadWithParameters"].before
    /\ Len(results["Load"].fetches) >= 2
    /\ results["Load"].rec # results["Load"].before

\* C5 (as claimed): LoadWithParameters with parameters of any supported
\* shape, every key resolved being in the store with a convertible text,
\* returns a nil error and a Watcher and does not panic.
C5_ParametersOfAnyShapeReturnWatcher ==
    (/\ Finished(pc)
     /\ entry = "LoadWithParameters"
     /\ data # NilData
     /\ arg = "ptr"
     /\ store.failAt = 0
     /\ AllConvertible(typ, store, data))
    => /\ Returned
       /\ err = NoError
       /\ watcher # NoWatcher

\* the names of a request the store does not hold
NotFound(req) == SelectSeq(req.names, LAMBDA n : n \notin DOMAIN store.Data)

\* the batch the call is at (the last one it requested, once it has ended)
CurrentBatch ==
    LET cur == IF phase = "plain" THEN plain ELSE decrypt
    IN Slice(cur, bi, Min(bi + maxParameters, Len(cur)))

Untouched(x) == GetAt(typ, rec, x.path) = GetAt(typ, recWalked, x.path)

\* C6: a request the store answers with names not found ends the Load with
\* an error naming all of them; no field of that batch is assigned and no
\* later request is sent.
C6_NotFoundFailsTheLoad ==
    \A k \in 1..Len(fetches) :
        (pc # "idle" /\ k # store.failAt /\ NotFound(fetches[k]) # <<>>)
        => /\ k = Len(fetches)
           /\ Returned
           /\ err = PlainError("invalid parameters", NotFound(fetches[k]))
           /\ parameterNames(CurrentBatch) = fetches[k].names
           /\ \A i \in 1..Len(CurrentBatch) :
                 /\ Untouched(CurrentBatch[i])
                 /\ \A j \in 1..Len(assigned) : assigned[j] # CurrentBatch[i]

\* a not-found answer to the second request, fields of the first assigned
C6_Witness ==
    /\ Returned
    /\ Len(fetches) = 2
    /\ store.failAt = 0
    /\ Len(NotFound(fetches[2])) >= 1
    /\ Len(assigned) = maxParameters
    /\ rec # recWalked

\* the places in processing order of the descriptors of a scalar type whose
\* text in the store does not convert, and the first of them
Inconvertible ==
    {n \in 1..Len(Order) :
        /\ Order[n].type.k \in ScalarKinds
        /\ ~Order[n].json
        /\ Order[n].key \in DOMAIN store.Data
        /\ ~Convertible(Order[n].type, store.Data[Order[n].key])}

FirstInconvertible == CHOOSE m \in Inconvertible : \A n \in Inconvertible : m <= n

\* the call gets as far as converting the first inconvertible text: the
\* requests up to the one that fetches it are answered, with every name found
ReachesInconvertible ==
    /\ arg = "ptr"
    /\ pc \in {"loading", "done", "crashed"}
    /\ Inconvertible # {}
    /\ store.failAt \notin 1..RequestOf(FirstInconvertible)
    /\ \A n \in 1..Len(Order) :
          RequestOf(n) <= RequestOf(FirstInconvertible) => Order[n].key \in DOMAIN store.Data

\* C7: when the text fetched for a descriptor of a scalar type does not
\* convert, Load returns a ConvertTypeError with the field's name, the type's
\* name and the text; the descriptors after it are not converted and no
\* request follows.
C7_ConvertTypeErrorStopsTheLoad ==
    ReachesInconvertible
    => LET x == Order[FirstInconvertible]
       IN /\ Len(fetches) <= RequestOf(FirstInconvertible)
          /\ assigned = SubSeq(Order, 1, Len(assigned))
          /\ Len(assigned) < FirstInconvertible
          /\ \A n \in FirstInconvertible..Len(Order) : Untouched(Order[n])
          /\ Finished(pc)
                => /\ Returned
                   /\ err = ConvertTypeError(x.name, TypeName(x.type), store.Data[x.key])
                   /\ Len(fetches) = RequestOf(FirstInconvertible)
                   /\ Len(assigned) = FirstInconvertible - 1

\* a duration that does not convert, in the third request of the call, with
\* descriptors left after it
C7_Witness ==
    /\ ReachesInconvertible
    /\ Returned
    /\ err.type = "ConvertTypeError"
    /\ err.Type = <<"time.Duration">>
    /\ Len(fetches) = 3
    /\ FirstInconvertible < Len(Order)

\* C8: when a Load fails at a descriptor or a batch, the fields converted
\* before keep their new values and the fields of the descriptors after the
\* failure keep the values they had after the walk.
C8_NoRollback ==
    (Returned /\ err # NoError /\ arg = "ptr")
    => /\ \A n \in 1..Len(assigned) :
             /\ assigned[n] = Order[n]
             /\ GetAt(typ, rec, assigned[n].path) =
                    Converted(assigned[n].type, store.Data[assigned[n].key])
       /\ \A n \in (Len(assigned) + 2)..Len(Order) : Untouched(Order[n])
       /\ (err.type = "error" /\ Len(assigned) < Len(Order))
             => Untouched(Order[Len(assigned) + 1])

\* a failure with fields converted before it and descriptors left after it
C8_Witness ==
    /\ Returned
    /\ err # NoError
    /\ Len(assigned) >= 2
    /\ Len(assigned) + 2 <= Len(Order)
    /\ recInit # Zero(TStruct(typ))
    /\ \A n \in 1..Len(assigned) :
          GetAt(typ, rec, assigned[n].path) # GetAt(typ, recWalked, assigned[n].path)
    /\ ~Untouched(Order[1])

\* the places of the commas of an annotation, the text before the first one
\* and the texts after each of them (up to the next one)
Commas(t) == {i \in 1..Len(t) : t[i] = ","}

Ends(t) == Commas(t) \cup {Len(t) + 1}

NextEnd(t, a) == CHOOSE b \in Ends(t) : b > a /\ \A c \in Ends(t) : c > a => b <= c

KeyText(t) == SubSeq(t, 1, NextEnd(t, 0) - 1)

LaterSegments(t) == {SubSeq(t, a + 1, NextEnd(t, a) - 1) : a \in Commas(t)}

\* a text without the blanks around it
Stripped(x) ==
    LET inked == {i \in 1..Len(x) : x[i] # " "}
    IN IF inked = {} THEN <<>>
       ELSE SubSeq(x, CHOOSE i \in inked : \A j \in inked : i <= j,
                      CHOOSE i \in inked : \A j \in inked : i >= j)

\* a key with its template actions executed against the parameters d
Resolved(key, d) ==
    IF d.kind \in {"nil", "map"}
    THEN [i \in 1..Len(key) |->
            IF key[i] = TemplateAction
            THEN (IF d.kind = "map" /\ d.env # "none" THEN d.env ELSE NoValue)
            ELSE key[i]]
    ELSE key

\* C9 (as claimed): for every annotation the parser gives no descriptor and
\* no error for the empty annotation and for "-"; otherwise a descriptor whose
\* key is the trimmed text before the first comma, whose decrypt flag says
\* that a later comma-segment is "decrypt", and whose json flag says that a
\* later comma-segment is "json".
C9_TagAgreesWithClaimedReference ==
    tagOut.parsed
    => /\ tagOut.err = NoError
       /\ tagOut.fld =
             IF tagIn.tag \in {<<>>, <<"-">>} THEN NoField
             ELSE [key |-> Stripped(KeyText(tagIn.tag)),
                   decrypt |-> <<"decrypt">> \in LaterSegments(tagIn.tag),
                   json |-> <<"json">> \in LaterSegments(tagIn.tag)]

\* C9 (amended): for every annotation the parser gives no descriptor and no
\* error for the empty annotation and for "-"; otherwise, when the trimmed
\* text before the first comma is empty, no descriptor and a TagParseError of
\* the annotation and the field's name; otherwise a descriptor whose key is
\* that trimmed text with its template actions executed against the
\* parameters, whose decrypt flag says that a later comma-segment, trimmed, is
\* "decrypt", and whose json flag says that a later one, trimmed, is "json".
C9_TagAgreesWithReference ==
    tagOut.parsed
    => LET t == tagIn.tag
           key == Stripped(KeyText(t))
           options == {Stripped(x) : x \in LaterSegments(t)}
       IN IF t \in {<<>>, <<"-">>}
          THEN tagOut.err = NoError /\ tagOut.fld = NoField
          ELSE IF key = <<>>
               THEN tagOut.err = TagParseError(t, "Field") /\ tagOut.fld = NoField
          ELSE /\ tagOut.err = NoError
               /\ tagOut.fld = [key |-> Resolved(key, tagIn.data),
                                decrypt |-> <<"decrypt">> \in options,
                                json |-> <<"json">> \in options]

\* an option with a blank before it has set the decrypt flag
C9_Witness ==
    /\ tagOut.parsed
    /\ tagIn.tag = <<"k", ",", " ", "decrypt">>
    /\ tagOut.err = NoError
    /\ tagOut.fld.decrypt
    /\ ~tagOut.fld.json

\* C10: a reached field with an annotation whose key is empty fails the Load
\* with a TagParseError of the annotation and the field's name; no descriptor
\* list is produced and no request is sent.
C10_EmptyKeyFailsTheLoad ==
    (arg = "ptr" /\ BadTags(typ) # <<>>)
    => /\ pc \in {"idle", "done"}
       /\ plain = <<>>
       /\ decrypt = <<>>
       /\ fetches = <<>>
       /\ assigned = <<>>
       /\ Returned
             => err = TagParseError(BadTags(typ)[1].field.tag, BadTags(typ)[1].field.name)

\* the empty key is in a nested struct, after a field with a good annotation
C10_Witness ==
    /\ Returned
    /\ typ = "BadNested"
    /\ err.type = "TagParseError"
    /\ err.Field = "Q"
    /\ err.Tag = <<",">>

\* the field of the one-field struct, now and when the call began
Field == GetAt("Conv", rec, <<1>>)
FieldBefore == GetAt("Conv", recWalked, <<1>>)

ConflictError ==
    PlainError("cannot use 'json' option on a type with a custom unmarshaller", "Field")

\* C11: for a field of a type with UnmarshalParameter whose annotation has
\* the json option, Load returns the configuration error and leaves the field
\* as it was: it holds neither what the custom decoder nor what the JSON
\* decoder makes of the text, and the error is not the JSON decoder's.
C11_UnmarshalerWithJSONIsAnError ==
    (Returned /\ conv.type = TStr /\ conv.json)
    => /\ err = ConflictError
       /\ rec = recBefore
       /\ assigned = <<>>
       /\ Len(fetches) = 1

C11_Witness ==
    /\ Returned
    /\ conv.type = TStr
    /\ conv.json
    /\ conv.text = <<"0">>
    /\ recInit = Preset(TStruct("Conv"))
    /\ err = ConflictError
    /\ Field = <<"o", "l", "d">>

\* the text of a list or pointer field has a part that does not convert
PartFails ==
    \/ /\ conv.type.k = "slice"
       /\ \E x \in {KeyText(conv.text)} \cup LaterSegments(conv.text) :
             ~Convertible(conv.type.elem, x)
    \/ /\ conv.type = TPtr(TPtr(TInt16))
       /\ ~Convertible(TInt16, conv.text)

\* C12 (as claimed): when an element of a list field's text, or the text of
\* a pointer field, does not convert, Load returns a ConvertTypeError.
C12_InnerFailuresPropagate ==
    (Returned /\ PartFails) => err.type = "ConvertTypeError"

\* C13: for an integer field of any width and a base-10 literal (digits,
\* behind an optional sign for a signed type), Load assigns the number when it
\* is in the range of the type and otherwise returns a ConvertTypeError with
\* the type's name and the text, the field keeping its value; a text with a
\* sign never converts to an unsigned type.
C13_IntegersFitOrFail ==
    (Returned /\ conv.type \in IntTypes)
    => /\ IF Fits(conv.type, conv.text)
          THEN err = NoError /\ Field = LiteralValue(conv.text)
          ELSE /\ err = ConvertTypeError("Field", <<conv.type.k>>, conv.text)
               /\ Field = FieldBefore
       /\ (conv.type.k \in UnsignedKinds /\ conv.text # <<>> /\ Head(conv.text) = "-")
             => err # NoError

\* 2^31 does not fit an int32
C13_Witness ==
    /\ Returned
    /\ conv.type = TInt32
    /\ conv.text = Cutoff(32)
    /\ recInit = Preset(TStruct("Conv"))
    /\ err.type = "ConvertTypeError"
    /\ Field = <<"9">>

\* the descriptors of a list with a decrypt flag, in the order of the list
WithFlag(f, b) == SelectSeq(f, LAMBDA x : x.decrypt = b)

\* how often x is in the list f
Count(f, x) == Cardinality({i \in 1..Len(f) : f[i] = x})

\* C18 (as claimed): the first list partitionFields returns is the
\* descriptors with decrypt false in their original order and the second the
\* descriptors with decrypt true in their original order.
C18_PartitionIsStable ==
    partOut.done
    => /\ partOut.p1 = WithFlag(partIn, FALSE)
       /\ partOut.p2 = WithFlag(partIn, TRUE)

\* C18 (amended): the first list partitionFields returns is the descriptors
\* with decrypt false in their original order; the second holds the
\* descriptors with decrypt true, each once, in an order that need not be the
\* original one.
C18_PartitionIsHalfStable ==
    partOut.done
    => /\ partOut.p1 = WithFlag(partIn, FALSE)
       /\ Len(partOut.p2) = Len(WithFlag(partIn, TRUE))
       /\ \A i \in 1..Len(WithFlag(partIn, TRUE)) :
             Count(partOut.p2, WithFlag(partIn, TRUE)[i]) = 1

\* [true, true, false]: the second list is the two in reverse
C18_Witness ==
    /\ partOut.done
    /\ Len(partIn) = 3
    /\ partIn[1].decrypt /\ partIn[2].decrypt /\ ~partIn[3].decrypt
    /\ partOut.p1 = <<partIn[3]>>
    /\ partOut.p2 = <<partIn[2], partIn[1]>>

\* C19: every element of the first list has decrypt false, every element of
\* the second decrypt true, the lengths are the numbers of such descriptors
\* in the input, and the two lists together hold each descriptor of the input
\* once.
C19_PartitionKeepsTheDescriptors ==
    partOut.done
    => /\ \A i \in 1..Len(partOut.p1) : ~partOut.p1[i].decrypt
       /\ \A i \in 1..Len(partOut.p2) : partOut.p2[i].decrypt
       /\ Len(partOut.p1) = Cardinality({i \in 1..Len(partIn) : ~partIn[i].decrypt})
       /\ Len(partOut.p2) = Cardinality({i \in 1..Len(partIn) : partIn[i].decrypt})
       /\ \A i \in 1..Len(partIn) : Count(partOut.p1 \o partOut.p2, partIn[i]) = 1

\* a list of both flags with swaps, and the empty list
C19_Witness ==
    /\ partOut.done
    /\ Len(partIn) = MaxPartLen
    /\ partIn[1].decrypt /\ ~partIn[2].decrypt /\ partIn[3].decrypt /\ ~partIn[4].decrypt
    /\ Len(partOut.p1) >= 2
    /\ Len(partOut.p2) >= 2

\* the slices the callback was called with, one after the other
Passed == Concat(iter.calls)

\* ceil(n / b)
Ceil(n, b) == (n + b - 1) \div b

\* C20: batchIterateFields calls its callback on contiguous slices in the
\* order of the list, each of the batch size but the last, which has 1 to
\* batch size elements; without an error of the callback the slices together
\* are the list, ceil(n/b) of them and none for the empty list; after an error
\* of the callback no further slice is passed and that error is returned.
C20_BatchesAreContiguousSlices ==
    LET n == Len(iter.f)
        b == iter.batchSize
        c == iter.calls
    IN /\ Passed = SubSeq(iter.f, 1, Len(Passed))
       /\ \A k \in 1..Len(c) :
             /\ Len(c[k]) \in 1..b
             /\ k < Len(c) => Len(c[k]) = b
             /\ Len(c[k]) < b => Len(Passed) = n
       /\ iter.pc = "returned"
             => IF iter.failAt \in 1..Ceil(n, b)
                THEN Len(c) = iter.failAt /\ iter.err = CallbackError
                ELSE /\ iter.err = NoError
                     /\ Passed = iter.f
                     /\ Len(c) = Ceil(n, b)
                     /\ n = 0 => c = <<>>

\* three batches, the last one smaller, and a return without error
C20_Witness ==
    /\ iter.pc = "returned"
    /\ iter.err = NoError
    /\ Len(iter.f) = 12
    /\ iter.batchSize = 5
    /\ Len(iter.calls) = 3
    /\ Len(iter.calls[3]) = 2

\* C14: the goroutine of Watch calls updated at most once, and after that
\* call it takes no further tick: no re-load of the record and no callback.
C14_UpdatedAtMostOnceThenNoTick ==
    /\ [](watch.updated <= 1)
    /\ [][watch.updated >= 1 => watch' = watch]_vars

\* the callback was called, the goroutine has returned
C14_Witness ==
    /\ watch.updated = 1
    /\ watch.pc = "stopped"
    /\ watch.ticks < MaxTicks
    /\ watch.w.ssm

\* C15 (as claimed): after a successful LoadWithParameters, with the
\* templating parameters and the store left as they are, no tick of Watch
\* calls updated. Neither changes in any behaviour of SpecWatch.
C15_UpdatedOnlyOnChange ==
    (watch.pc # "none" /\ watch.w.ssm) => watch.updated = 0

\* C16 (as claimed): the watcher a successful LoadWithParameters returns
\* holds parameters equal to those the caller gave, and every tick sends the
\* requests for the keys of the original call.
C16_WatcherKeepsTheParameters ==
    (watch.pc # "none" /\ watch.w.ssm)
    => /\ watch.w.data = watch.given
       /\ \A t \in 1..Len(watch.reqs) : watch.reqs[t] = watch.first

\* C17 (as claimed): Watch on the watcher of a call without templating
\* parameters does nothing at a tick: no callback, no request to the store,
\* no crash.
C17_NoOpWatcher ==
    (watch.pc # "none" /\ ~watch.w.ssm /\ watch.given = NilData /\ err = NoError)
    => /\ watch.updated = 0
       /\ \A t \in 1..Len(watch.reqs) : watch.reqs[t] = <<>>
       /\ watch.pc # "crashed"

\* the requests of the call without and with decryption
PlainFetches == SelectSeq(fetches, LAMBDA q : ~q.decrypt)
DecryptFetches == SelectSeq(fetches, LAMBDA q : q.decrypt)

\* the keys of the k-th batch of maxParameters descriptors of the list f
KeysOfBatch(f, k) ==
    [n \in 1..(Min(k * maxParameters, Len(f)) - (k - 1) * maxParameters) |->
        f[(k - 1) * maxParameters + n].key]

\* C21: within one call the requests of the plain partition come first, batch
\* after batch in the order of the partition; a request with decryption is
\* sent only after every plain batch was requested and answered without
\* error, so none is sent when a plain batch fails.
C21_PlainBeforeDecrypt ==
    /\ fetches = PlainFetches \o DecryptFetches
    /\ Len(PlainFetches) <= Batches(Len(plain))
    /\ \A k \in 1..Len(PlainFetches) : PlainFetches[k].names = KeysOfBatch(plain, k)
    /\ DecryptFetches # <<>> => Len(PlainFetches) = Batches(Len(plain))
    /\ (err # NoError /\ fetches # <<>> /\ ~fetches[Len(fetches)].decrypt)
          => DecryptFetches = <<>>
    /\ (pc = "loading" /\ phase = "plain") => DecryptFetches = <<>>

\* two plain batches, then a batch with decryption
C21_Witness ==
    /\ Returned
    /\ err = NoError
    /\ Len(PlainFetches) = 2
    /\ Len(DecryptFetches) = 1
    /\ fetches[3].decrypt

\* C22: every request to the store names 1 to maxParameters keys, the keys
\* of descriptors whose decrypt flag is the flag of the request; a call that
\* returns without error has sent ceil(p/10) + ceil(d/10) requests for its p
\* plain and d decrypt descriptors, and each descriptor's key is named in
\* one of them, once.
C22_FetchesAreBatchesOfTheirPartition ==
    /\ \A k \in 1..Len(fetches) : Len(fetches[k].names) \in 1..maxParameters
    /\ \A k \in 1..Len(PlainFetches) :
          \A n \in 1..Len(PlainFetches[k].names) :
             \E x \in 1..Len(Order) :
                ~Order[x].decrypt /\ Order[x].key = PlainFetches[k].names[n]
    /\ \A k \in 1..Len(DecryptFetches) :
          \A n \in 1..Len(DecryptFetches[k].names) :
             \E x \in 1..Len(Order) :
                Order[x].decrypt /\ Order[x].key = DecryptFetches[k].names[n]
    /\ (Returned /\ err = NoError)
          => /\ Len(fetches) = Batches(Len(plain)) + Batches(Len(decrypt))
             /\ Concat([k \in 1..Len(fetches) |-> fetches[k].names])
                   = [x \in 1..Len(Order) |-> Order[x].key]

\* a successful call with more than maxParameters plain descriptors
C22_Witness ==
    /\ Returned
    /\ err = NoError
    /\ Len(plain) > maxParameters
    /\ Len(decrypt) > 0
    /\ Len(fetches) = 3
    /\ Len(fetches[1].names) = maxParameters

\* the walk of the latest call went through every field of the record
Walked ==
    /\ arg = "ptr"
    /\ calls > 0
    /\ pc # "idle"
    /\ pc = "loading" \/ fetches # <<>> \/ (pc = "done" /\ err = NoError)

\* C23 (as claimed): the walk gives an exported pointer field a new zero
\* target only when the field is nil; a field that points to a target before
\* the call keeps that target and its contents, and a nil field is not nil
\* after the walk.
C23_WalkAllocatesOnlyNilPointers ==
    Walked
    => \A i \in 1..Len(StructFields(typ)) :
          (StructFields(typ)[i].pkgPath = "" /\ StructFields(typ)[i].type.k = "ptr")
          => IF recBefore[i].nil THEN ~recWalked[i].nil
             ELSE recWalked[i] = recBefore[i]

\* the fields the walk is claimed to reach: the exported fields of the
\* struct, and below a struct (or pointer to struct) field without an
\* annotation its fields
RECURSIVE ReachedUnannotated(_, _)
ReachedUnannotated(id, path) ==
    Concat([i \in 1..Len(StructFields(id)) |->
        LET ft == StructFields(id)[i]
            here == <<[path |-> Append(path, i), field |-> ft]>>
        IN IF ft.pkgPath # "" THEN <<>>
           ELSE IF ft.tag = <<>> /\ Indirect(ft.type).k = "struct"
                THEN here \o ReachedUnannotated(Indirect(ft.type).id, Append(path, i))
           ELSE here])

Paths(f) == [n \in 1..Len(f) |-> f[n].path]

\* C24 (as claimed): the list walk returns holds the exported fields with a
\* key annotation that are reached from the root through exported struct (or
\* pointer to struct) fields without an annotation, in depth-first
\* declaration order, and no other field.
C24_WalkListsTheReachedAnnotatedFields ==
    (wk.pc = "returned" /\ wk.err = NoError)
    => Paths(wk.p) =
          Paths(SelectSeq(ReachedUnannotated(wk.id, <<>>), LAMBDA x : Annotated(x.field)))

\* C25 (as claimed): walk returns for every record type.
C25_WalkReturns == <>(wk.pc = "returned")

\* the walk of the model agrees with the walk of Load
WalkAgrees ==
    wk.pc = "returned"
    => LET w == walk(TStruct(wk.id), wk.given, wk.d, 1)
       IN wk.err = w.err /\ wk.p = w.p /\ wk.v = w.v

\* the call with summary b ran on the record as the call with summary a left
\* it after a return without error; both without templating parameters
Again(a, b) ==
    /\ arg = "ptr"
    /\ ~a.none /\ ~b.none
    /\ a.pc = "done" /\ a.err = NoError
    /\ a.data = NilData /\ b.data = NilData
    /\ b.before = a.rec

SameOutcome(a, b) ==
    /\ b.pc = "done"
    /\ b.err = NoError
    /\ b.fetches = a.fetches
    /\ Contents(TStruct(typ), b.rec) = Contents(TStruct(typ), a.rec)

\* C26: a second Load of the record a first Load has filled without error,
\* the store unchanged, returns no error, sends the same requests in the same
\* order and leaves every bound field with the value it had. Load(c, v) is
\* LoadWithParameters(c, v, nil); the two calls are one through each entry.
C26_LoadTwiceIsLoadOnce ==
    /\ Again(results["Load"], results["LoadWithParameters"])
          => SameOutcome(results["Load"], results["LoadWithParameters"])
    /\ Again(results["LoadWithParameters"], results["Load"])
          => SameOutcome(results["LoadWithParameters"], results["Load"])

\* a record with pointers and nested structs loaded twice in a row, each
\* call with two requests or more
C26_Witness ==
    /\ Again(results["Load"], results["LoadWithParameters"])
    /\ entry = "LoadWithParameters"
    /\ calls = 2
    /\ rec # recInit
    /\ recBefore # recInit
    /\ typ \in {"Top", "Interleaved"}
    /\ Len(results["LoadWithParameters"].fetches) >= 1

====
